---------------------------- MODULE Spec2Model ----------------------------
(***************************************************************************)
(* Now-playing detection and display reconciliation of kendaniels/now-     *)
(* playing: the media-control probe, the per-kind eligibility cache, the   *)
(* lookup orchestrator (media-control.ts, src/unnamed/part_004), the       *)
(* menubar command's display state machine (src/unnamed/part_003) and the  *)
(* detection state of the search commands (src/src/index.tsx,              *)
(* src/unnamed/part_005, src/src/Lyrics.tsx).                              *)
(*                                                                         *)
(* Text is a sequence of one-character strings, so that trimming and       *)
(* joining are computed.  A JSON value is a record                         *)
(*   [t, s, n, f]: t its type, s the text of a string, n the value of a    *)
(*   number, f the members of an object (a function from keys to values).  *)
(* A text that is to be parsed as JSON (stdout, a storage item) is         *)
(* represented by the outcome of JSON.parse on it: [valid, value].         *)
(***************************************************************************)
EXTENDS Integers, Sequences, FiniteSets, TLC

(***************************************************************************)
(* Bounds of the model.                                                    *)
(***************************************************************************)
\* Date.now() is read from a clock that runs from 0 to MaxClock.
MaxClock == 1

(***************************************************************************)
(* Text                                                                    *)
(***************************************************************************)
EmptyText == <<>>

IsBlankChar(c) == c = " "

\* String.prototype.trim
RECURSIVE TrimLeft(_)
TrimLeft(s) ==
    IF s # <<>> /\ IsBlankChar(Head(s)) THEN TrimLeft(Tail(s)) ELSE s

RECURSIVE TrimRight(_)
TrimRight(s) ==
    IF s # <<>> /\ IsBlankChar(s[Len(s)])
    THEN TrimRight(SubSeq(s, 1, Len(s) - 1))
    ELSE s

Trim(s) == TrimRight(TrimLeft(s))

(***************************************************************************)
(* JSON values                                                             *)
(***************************************************************************)
NoMembers == <<>>

JNull == [t |-> "null", s |-> <<>>, n |-> 0, f |-> NoMembers]
JNum(k) == [t |-> "number", s |-> <<>>, n |-> k, f |-> NoMembers]
JStr(x) == [t |-> "string", s |-> x, n |-> 0, f |-> NoMembers]
JArr == [t |-> "array", s |-> <<>>, n |-> 0, f |-> NoMembers]
JObj(members) == [t |-> "object", s |-> <<>>, n |-> 0, f |-> members]

\* JavaScript's  payload && typeof payload === "object"  (arrays included;
\* null, numbers and strings excluded)
IsObjectValue(v) == v.t \in {"object", "array"}

\* v[key] of an object value: undefined is reported by HasMember
HasMember(v, key) == key \in DOMAIN v.f

\* v === null (the absence of a payload is null as well)
IsNull(v) == v.t = "null"

\* The outcome of JSON.parse on a text
Parsed(v) == [valid |-> TRUE, value |-> v]
Unparseable == [valid |-> FALSE, value |-> JNull]

\* a number that is not finite: JSON.parse yields Infinity for a literal
\* beyond the range of a double, such as 1e999; s holds its spelling
JInf == [t |-> "number", s |-> <<"Infinity">>, n |-> 0, f |-> NoMembers]

\* the value JSON.stringify writes for v: a number that is not finite is
\* written as null, inside objects as well
RECURSIVE Serialized(_)
Serialized(v) ==
    IF v.t = "number" /\ v.s # <<>> THEN JNull
    ELSE IF v.t = "object" THEN JObj([key \in DOMAIN v.f |-> Serialized(v.f[key])])
    ELSE v

\* JSON.stringify writing every value as it is
Stringify_Verbatim(v) == Parsed(v)

\* JSON.stringify(v), as the text that parses back to what was written
Stringify(v) == Parsed(Serialized(v))

(***************************************************************************)
(* media-control.ts: payload normaliser and query derivation               *)
(***************************************************************************)
Kinds == {"track", "artist", "album"}

\* a null query; a non-null query is never the empty text (the code tests
\* queries by truthiness and returns only truthy strings or null)
NullQuery == <<>>

readStringField(payload, key) ==
    IF ~IsObjectValue(payload) THEN EmptyText
    ELSE IF HasMember(payload, key) /\ payload.f[key].t = "string"
         THEN Trim(payload.f[key].s)
         ELSE EmptyText

\* asPayloadRecord: the value itself, or null
asPayloadRecord(payload) == IF IsObjectValue(payload) THEN payload ELSE JNull

formatNowPlayingSearchQuery(payload) ==
    LET title == readStringField(payload, "title")
        artist == readStringField(payload, "artist")
    IN  IF title = EmptyText THEN NullQuery
        ELSE IF artist = EmptyText THEN title
        ELSE title \o <<" ">> \o artist

formatNowPlayingAlbumSearchQuery(payload) ==
    LET album == readStringField(payload, "album")
    IN  IF album = EmptyText THEN NullQuery ELSE album

\* the query of a kind derived without the test for an album
queryForLookupKind_NoAlbumGate(payload, kind) ==
    IF kind = "album" THEN formatNowPlayingAlbumSearchQuery(payload)
    ELSE formatNowPlayingSearchQuery(payload)

queryForLookupKind(payload, kind) ==
    LET album == readStringField(payload, "album")
    IN  IF album = EmptyText THEN NullQuery
        ELSE IF kind = "album" THEN formatNowPlayingAlbumSearchQuery(payload)
        ELSE formatNowPlayingSearchQuery(payload)

(***************************************************************************)
(* media-control.ts: the probe                                             *)
(*                                                                         *)
(* An error message is a sequence of words.  The outcome of running one    *)
(* candidate is [ran, error, stdout]: ran says whether execFile resolved,  *)
(* error is what it rejected with, stdout is the outcome of JSON.parse on  *)
(* the output.                                                             *)
(***************************************************************************)
candidates ==
    << "media-control",
       "/opt/homebrew/bin/media-control",
       "/usr/local/bin/media-control",
       "/opt/local/bin/media-control",
       "/opt/homebrew/opt/media-control/bin/media-control",
       "/usr/local/opt/media-control/bin/media-control" >>

NoBinary == ""
NoError == <<>>

\* String.prototype.toLowerCase on the words error messages are made of
ToLowerWord(w) ==
    CASE w = "Not" -> "not"
      [] w = "NOT" -> "not"
      [] w = "Found" -> "found"
      [] w = "FOUND" -> "found"
      [] OTHER -> w

ToLowerCase(msg) == [i \in 1..Len(msg) |-> ToLowerWord(msg[i])]

\* String.prototype.includes, on words
Includes(msg, pat) ==
    \E i \in 0..(Len(msg) - Len(pat)) :
        \A j \in 1..Len(pat) : msg[i + j] = pat[j]

isMissingBinaryError(error) ==
    IF error.code = "ENOENT" THEN TRUE
    ELSE Includes(error.message, <<"ENOENT">>)
         \/ Includes(ToLowerCase(error.message), <<"not", "found">>)

\* the SyntaxError JSON.parse throws
SyntaxError == [code |-> "", message |-> <<"Unexpected", "token">>]
ErrNone == [code |-> "", message |-> <<>>]

\* the SyntaxError of an engine whose message quotes the text it was given,
\* as V8 does from version 10.5 on: Unexpected token 'o', "not found" is not
\* valid JSON
SyntaxErrorQuoting(text) ==
    [ code |-> "",
      message |-> <<"Unexpected", "token">> \o text \o <<"is", "not", "valid", "JSON">> ]

Ran(stdout) == [ran |-> TRUE, error |-> ErrNone, stdout |-> stdout]
Failed(error) == [ran |-> FALSE, error |-> error, stdout |-> Unparseable]

\* the candidate ran and printed a text that is no JSON, on an engine that
\* quotes the text in the message of its SyntaxError
Printed(text) ==
    [ran |-> TRUE, error |-> SyntaxErrorQuoting(text), stdout |-> Unparseable]

\* what the try block of one loop iteration throws, if it throws
ThrownBy(outcome) ==
    IF outcome.ran /\ outcome.error = ErrNone THEN SyntaxError ELSE outcome.error

\* the loop over the candidates, from candidate i on
RECURSIVE TryCandidates(_, _, _, _)
TryCandidates(outs, i, attempts, missingBinaryAttempts) ==
    IF i > Len(candidates)
    THEN [ query |-> NullQuery,
           error |-> IF attempts # <<>> THEN attempts[Len(attempts)]
                     ELSE <<"Failed", "to", "execute", "media-control">>,
           payload |-> JNull,
           binary |-> NoBinary,
           attempts |-> attempts,
           isNotInstalled |-> (missingBinaryAttempts = Len(candidates)) ]
    ELSE IF outs[i].ran /\ outs[i].stdout.valid
    THEN [ query |-> formatNowPlayingSearchQuery(outs[i].stdout.value),
           error |-> NoError,
           payload |-> outs[i].stdout.value,
           binary |-> candidates[i],
           attempts |-> attempts,
           isNotInstalled |-> FALSE ]
    ELSE TryCandidates(
             outs, i + 1,
             Append(attempts, <<candidates[i], ":">> \o ThrownBy(outs[i]).message),
             IF isMissingBinaryError(ThrownBy(outs[i]))
             THEN missingBinaryAttempts + 1 ELSE missingBinaryAttempts)

\* the probe starting at the second candidate
inspectNowPlaying_FromSecond(plat, outs) ==
    IF plat # "darwin"
    THEN [ query |-> NullQuery,
           error |-> <<"media-control", "is", "only", "supported", "on", "macOS">>,
           payload |-> JNull,
           binary |-> NoBinary,
           attempts |-> <<>>,
           isNotInstalled |-> FALSE ]
    ELSE TryCandidates(outs, 2, <<>>, 0)

\* the probe running the candidates on Windows as well
inspectNowPlaying_OnWindows(plat, outs) ==
    IF plat \notin {"darwin", "win32"}
    THEN [ query |-> NullQuery,
           error |-> <<"media-control", "is", "only", "supported", "on", "macOS">>,
           payload |-> JNull,
           binary |-> NoBinary,
           attempts |-> <<>>,
           isNotInstalled |-> FALSE ]
    ELSE TryCandidates(outs, 1, <<>>, 0)

inspectNowPlaying(plat, outs) ==
    IF plat # "darwin"
    THEN [ query |-> NullQuery,
           error |-> <<"media-control", "is", "only", "supported", "on", "macOS">>,
           payload |-> JNull,
           binary |-> NoBinary,
           attempts |-> <<>>,
           isNotInstalled |-> FALSE ]
    ELSE TryCandidates(outs, 1, <<>>, 0)

(***************************************************************************)
(* media-control.ts: the eligibility cache in LocalStorage                 *)
(*                                                                         *)
(* A storage item is [present, valid, value]: whether the key holds a      *)
(* string, and the outcome of JSON.parse on it.                            *)
(***************************************************************************)
\* the keys with the artist's entries kept under the key of the tracks
CACHE_KEYS_ArtistUnderTrack ==
    [ track |-> "cached-eligible-media-track",
      artist |-> "cached-eligible-media-track",
      album |-> "cached-eligible-media-album" ]

CACHE_KEYS ==
    [ track |-> "cached-eligible-media-track",
      artist |-> "cached-eligible-media-artist",
      album |-> "cached-eligible-media-album" ]

StorageKeys == {CACHE_KEYS[k] : k \in Kinds}

NoItem == [present |-> FALSE, valid |-> FALSE, value |-> JNull]
Item(text) == [present |-> TRUE, valid |-> text.valid, value |-> text.value]

\* { payload, cachedAt: Date.now() }
CachedEligibleMedia(payload, now) ==
    JObj(("payload" :> payload) @@ ("cachedAt" :> JNum(now)))

\* saveEligibleMedia writing every kind under the key of kind track
saveEligibleMedia_OneKey(storage, kind, payload, now, writeOk) ==
    IF writeOk
    THEN [storage EXCEPT
             ![CACHE_KEYS["track"]] = Item(Stringify(CachedEligibleMedia(payload, now)))]
    ELSE storage

\* LocalStorage after saveEligibleMedia; a rejected setItem is swallowed
saveEligibleMedia(storage, kind, payload, now, writeOk) ==
    IF writeOk
    THEN [storage EXCEPT
             ![CACHE_KEYS[kind]] = Item(Stringify(CachedEligibleMedia(payload, now)))]
    ELSE storage

\* readEligibleMedia reading the slot of kind track for every kind
readEligibleMedia_TrackKey(storage, kind, readOk) ==
    LET cachedRaw == storage[CACHE_KEYS["track"]]
    IN  IF ~readOk THEN JNull
        ELSE IF ~cachedRaw.present THEN JNull
        ELSE IF ~cachedRaw.valid THEN JNull
        ELSE IF ~IsObjectValue(cachedRaw.value) THEN JNull
        ELSE IF ~HasMember(cachedRaw.value, "payload") THEN JNull
        ELSE asPayloadRecord(cachedRaw.value.f["payload"])

\* readEligibleMedia returning the stored payload without asPayloadRecord
readEligibleMedia_AnyPayload(storage, kind, readOk) ==
    LET cachedRaw == storage[CACHE_KEYS[kind]]
    IN  IF ~readOk THEN JNull
        ELSE IF ~cachedRaw.present THEN JNull
        ELSE IF ~cachedRaw.valid THEN JNull
        ELSE IF ~IsObjectValue(cachedRaw.value) THEN JNull
        ELSE IF ~HasMember(cachedRaw.value, "payload") THEN JNull
        ELSE cachedRaw.value.f["payload"]

\* the payload readEligibleMedia resolves to (JNull for null); a rejected
\* getItem and a JSON.parse error are caught
readEligibleMedia(storage, kind, readOk) ==
    LET cachedRaw == storage[CACHE_KEYS[kind]]
    IN  IF ~readOk THEN JNull
        ELSE IF ~cachedRaw.present THEN JNull
        ELSE IF ~cachedRaw.valid THEN JNull
        ELSE IF ~IsObjectValue(cachedRaw.value) THEN JNull
        ELSE IF ~HasMember(cachedRaw.value, "payload") THEN JNull
        ELSE asPayloadRecord(cachedRaw.value.f["payload"])

(***************************************************************************)
(* media-control.ts: what the promises reject with.  A try block whose      *)
(* catch block does not throw resolves whatever the block threw.            *)
(***************************************************************************)
\* try { ... } catch { ... }, the catch block running to its end
Caught(thrown) == FALSE

\* saveEligibleMedia without its try block
saveEligibleMediaRejects_NoTry(writeOk) == ~writeOk

\* saveEligibleMedia rejects: setItem is awaited inside the try block
saveEligibleMediaRejects(writeOk) == Caught(~writeOk)

\* readEligibleMedia rejects: getItem and JSON.parse are inside the try block
readEligibleMediaRejects(storage, kind, readOk) ==
    Caught(~readOk \/ (storage[CACHE_KEYS[kind]].present
                        /\ ~storage[CACHE_KEYS[kind]].valid))

\* inspectNowPlaying rejects: execFile and JSON.parse are inside the try
\* block of the loop
inspectNowPlayingRejects(plat, outs) ==
    /\ plat = "darwin"
    /\ \E i \in 1..Len(candidates) : Caught(~outs[i].ran \/ ~outs[i].stdout.valid)

\* inspectNowPlayingForLookup rejects: it awaits the probe and, by branch,
\* saveEligibleMedia or readEligibleMedia, outside any try block
LookupRejects(plat, outs, info, kind, allow, storage, ioOk) ==
    LET livePayload == asPayloadRecord(info.payload)
    IN  \/ inspectNowPlayingRejects(plat, outs)
        \/ IF ~IsNull(livePayload) /\ queryForLookupKind(livePayload, kind) # NullQuery
           THEN saveEligibleMediaRejects(ioOk)
           ELSE IF IsNull(livePayload) \/ allow
           THEN readEligibleMediaRejects(storage, kind, ioOk)
           ELSE FALSE

(***************************************************************************)
(* media-control.ts: the lookup orchestrator                               *)
(***************************************************************************)
WithPayload(info, payload, query) ==
    [info EXCEPT !.payload = payload, !.query = query]

\* the lookup falling back to the cache on an ineligible live payload whether
\* or not the caller opted in
LookupResult_AlwaysFallsBack(info, kind, allow, storage, readOk) ==
    LET livePayload == asPayloadRecord(info.payload)
        liveQuery == queryForLookupKind(livePayload, kind)
        cachedPayload == readEligibleMedia(storage, kind, readOk)
        cachedQuery == queryForLookupKind(cachedPayload, kind)
    IN  IF ~IsNull(livePayload) /\ liveQuery # NullQuery
        THEN WithPayload(info, livePayload, liveQuery)
        ELSE IF ~IsNull(cachedPayload) /\ cachedQuery # NullQuery
        THEN WithPayload(info, cachedPayload, cachedQuery)
        ELSE WithPayload(info, JNull, NullQuery)

\* the lookup reading the cache after a failed probe only when the caller
\* opted in
LookupResult_FallbackNeedsOptIn(info, kind, allow, storage, readOk) ==
    LET livePayload == asPayloadRecord(info.payload)
        liveQuery == queryForLookupKind(livePayload, kind)
        cachedPayload == readEligibleMedia(storage, kind, readOk)
        cachedQuery == queryForLookupKind(cachedPayload, kind)
    IN  IF ~IsNull(livePayload) /\ liveQuery # NullQuery
        THEN WithPayload(info, livePayload, liveQuery)
        ELSE IF allow /\ ~IsNull(cachedPayload) /\ cachedQuery # NullQuery
        THEN WithPayload(info, cachedPayload, cachedQuery)
        ELSE WithPayload(info, JNull, NullQuery)

\* the lookup handing back a cached entry as if the probe had found it:
\* without the probe's error and without its flag
LookupResult_CachedIsClean(info, kind, allow, storage, readOk) ==
    LET livePayload == asPayloadRecord(info.payload)
        liveQuery == queryForLookupKind(livePayload, kind)
        cachedPayload == readEligibleMedia(storage, kind, readOk)
        cachedQuery == queryForLookupKind(cachedPayload, kind)
        clean == [info EXCEPT !.error = NoError, !.isNotInstalled = FALSE]
    IN  IF ~IsNull(livePayload)
        THEN IF liveQuery # NullQuery
             THEN WithPayload(info, livePayload, liveQuery)
             ELSE IF allow /\ ~IsNull(cachedPayload) /\ cachedQuery # NullQuery
             THEN WithPayload(clean, cachedPayload, cachedQuery)
             ELSE WithPayload(info, JNull, NullQuery)
        ELSE IF ~IsNull(cachedPayload) /\ cachedQuery # NullQuery
             THEN WithPayload(clean, cachedPayload, cachedQuery)
             ELSE WithPayload(info, JNull, NullQuery)

\* the lookup handing back the live payload it found no query for, instead
\* of null
LookupResult_KeepsIneligible(info, kind, allow, storage, readOk) ==
    LET livePayload == asPayloadRecord(info.payload)
        liveQuery == queryForLookupKind(livePayload, kind)
        cachedPayload == readEligibleMedia(storage, kind, readOk)
        cachedQuery == queryForLookupKind(cachedPayload, kind)
    IN  IF ~IsNull(livePayload)
        THEN IF liveQuery # NullQuery
             THEN WithPayload(info, livePayload, liveQuery)
             ELSE IF allow /\ ~IsNull(cachedPayload) /\ cachedQuery # NullQuery
             THEN WithPayload(info, cachedPayload, cachedQuery)
             ELSE WithPayload(info, livePayload, NullQuery)
        ELSE IF ~IsNull(cachedPayload) /\ cachedQuery # NullQuery
             THEN WithPayload(info, cachedPayload, cachedQuery)
             ELSE WithPayload(info, JNull, NullQuery)

\* the record inspectNowPlayingForLookup resolves to, given the probe's
\* result and the storage it reads
LookupResult(info, kind, allow, storage, readOk) ==
    LET livePayload == asPayloadRecord(info.payload)
        liveQuery == queryForLookupKind(livePayload, kind)
        cachedPayload == readEligibleMedia(storage, kind, readOk)
        cachedQuery == queryForLookupKind(cachedPayload, kind)
    IN  IF ~IsNull(livePayload)
        THEN IF liveQuery # NullQuery
             THEN WithPayload(info, livePayload, liveQuery)
             ELSE IF allow /\ ~IsNull(cachedPayload) /\ cachedQuery # NullQuery
             THEN WithPayload(info, cachedPayload, cachedQuery)
             ELSE WithPayload(info, JNull, NullQuery)
        ELSE IF ~IsNull(cachedPayload) /\ cachedQuery # NullQuery
             THEN WithPayload(info, cachedPayload, cachedQuery)
             ELSE WithPayload(info, JNull, NullQuery)

\* the lookup saving every live record, eligible or not
LookupStorage_SavesAnyRecord(info, kind, storage, now, writeOk) ==
    IF ~IsNull(asPayloadRecord(info.payload))
    THEN saveEligibleMedia(storage, kind, asPayloadRecord(info.payload), now, writeOk)
    ELSE storage

\* LocalStorage after inspectNowPlayingForLookup: written only on the live
\* eligible branch
LookupStorage(info, kind, storage, now, writeOk) ==
    LET livePayload == asPayloadRecord(info.payload)
    IN  IF ~IsNull(livePayload) /\ queryForLookupKind(livePayload, kind) # NullQuery
        THEN saveEligibleMedia(storage, kind, livePayload, now, writeOk)
        ELSE storage

(***************************************************************************)
(* now-playing-menubar.tsx: payload normaliser                             *)
(***************************************************************************)
\* the case folding of the /i flag, on the letters of the URL schemes
LowerChar(c) ==
    CASE c = "H" -> "h" [] c = "T" -> "t" [] c = "P" -> "p" [] c = "S" -> "s"
      [] c = "D" -> "d" [] c = "A" -> "a" [] c = "F" -> "f" [] c = "I" -> "i"
      [] c = "L" -> "l" [] c = "E" -> "e" [] OTHER -> c

StartsWithIgnoreCase(s, prefix) ==
    /\ Len(s) >= Len(prefix)
    /\ \A i \in 1..Len(prefix) : LowerChar(s[i]) = prefix[i]

\* /^(https?:\/\/|data:|file:\/\/)/i
IsUsableUrl(raw) ==
    \/ StartsWithIgnoreCase(raw, <<"h", "t", "t", "p", ":", "/", "/">>)
    \/ StartsWithIgnoreCase(raw, <<"h", "t", "t", "p", "s", ":", "/", "/">>)
    \/ StartsWithIgnoreCase(raw, <<"d", "a", "t", "a", ":">>)
    \/ StartsWithIgnoreCase(raw, <<"f", "i", "l", "e", ":", "/", "/">>)

ImageJpeg == <<"i", "m", "a", "g", "e", "/", "j", "p", "e", "g">>

toArtworkDataUri(data, mimeType) ==
    LET raw == Trim(data)
        mime == IF Trim(mimeType) # EmptyText THEN Trim(mimeType) ELSE ImageJpeg
    IN  IF raw = EmptyText THEN EmptyText
        ELSE IF IsUsableUrl(raw) THEN raw
        ELSE <<"d", "a", "t", "a", ":">> \o mime
             \o <<";", "b", "a", "s", "e", "6", "4", ",">> \o raw

nestedCandidates == <<"url", "src", "data", "image", "artwork_url", "artworkUrl">>

flatCandidates ==
    <<"artwork_url", "artworkUrl", "artwork", "album_art_url", "albumArtUrl",
      "image", "thumbnail">>

\* typeof value === "string" && value.trim()
IsNonBlankString(v) == v.t = "string" /\ Trim(v.s) # EmptyText

\* the first nested candidate key of dataObject holding a non-blank string,
\* from index i on; 0 when there is none
RECURSIVE FirstNested(_, _)
FirstNested(dataObject, i) ==
    IF i > Len(nestedCandidates) THEN 0
    ELSE IF HasMember(dataObject, nestedCandidates[i])
            /\ IsNonBlankString(dataObject.f[nestedCandidates[i]])
    THEN i
    ELSE FirstNested(dataObject, i + 1)

\* the first flat candidate key of payload that reads as a non-empty string
RECURSIVE FirstFlat(_, _)
FirstFlat(payload, i) ==
    IF i > Len(flatCandidates) THEN EmptyText
    ELSE IF readStringField(payload, flatCandidates[i]) # EmptyText
    THEN readStringField(payload, flatCandidates[i])
    ELSE FirstFlat(payload, i + 1)

\* the artwork resolution with the flat keys tried before artworkData
readArtworkUrl_FlatFirst(payload) ==
    LET artworkMimeType ==
            IF readStringField(payload, "artworkMimeType") # EmptyText
            THEN readStringField(payload, "artworkMimeType") ELSE ImageJpeg
        hasData == IsObjectValue(payload) /\ HasMember(payload, "artworkData")
        artworkData == IF hasData THEN payload.f["artworkData"] ELSE JNull
        nested == IF IsObjectValue(artworkData) THEN FirstNested(artworkData, 1) ELSE 0
        nestedMime ==
            IF HasMember(artworkData, "mimeType")
               /\ IsNonBlankString(artworkData.f["mimeType"])
            THEN Trim(artworkData.f["mimeType"].s) ELSE artworkMimeType
    IN  IF FirstFlat(payload, 1) # EmptyText
        THEN FirstFlat(payload, 1)
        ELSE IF IsNonBlankString(artworkData)
        THEN toArtworkDataUri(artworkData.s, artworkMimeType)
        ELSE IF nested # 0
        THEN toArtworkDataUri(artworkData.f[nestedCandidates[nested]].s, nestedMime)
        ELSE EmptyText

readArtworkUrl(payload) ==
    LET artworkMimeType ==
            IF readStringField(payload, "artworkMimeType") # EmptyText
            THEN readStringField(payload, "artworkMimeType") ELSE ImageJpeg
        hasData == IsObjectValue(payload) /\ HasMember(payload, "artworkData")
        artworkData == IF hasData THEN payload.f["artworkData"] ELSE JNull
        nested == IF IsObjectValue(artworkData) THEN FirstNested(artworkData, 1) ELSE 0
        nestedMime ==
            IF HasMember(artworkData, "mimeType")
               /\ IsNonBlankString(artworkData.f["mimeType"])
            THEN Trim(artworkData.f["mimeType"].s) ELSE artworkMimeType
    IN  IF IsNonBlankString(artworkData)
        THEN toArtworkDataUri(artworkData.s, artworkMimeType)
        ELSE IF nested # 0
        THEN toArtworkDataUri(artworkData.f[nestedCandidates[nested]].s, nestedMime)
        ELSE FirstFlat(payload, 1)

(***************************************************************************)
(* now-playing-menubar.tsx: the display state and its durable mirror       *)
(***************************************************************************)
NoErrorText == <<>>

NowPlayingState(track, artist, album, artworkUrl, status, error) ==
    [ track |-> track, artist |-> artist, album |-> album,
      artworkUrl |-> artworkUrl, status |-> status, error |-> error ]

Cleared(status, error) ==
    NowPlayingState(EmptyText, EmptyText, EmptyText, EmptyText, status, error)

defaultState(plat) ==
    Cleared(IF plat = "darwin" THEN "no-track" ELSE "unsupported-platform", NoErrorText)

\* JSON.stringify(state): an undefined error is left out
StateJson(st) ==
    JObj( ("track" :> JStr(st.track)) @@ ("artist" :> JStr(st.artist))
          @@ ("album" :> JStr(st.album)) @@ ("artworkUrl" :> JStr(st.artworkUrl))
          @@ ("status" :> JStr(<<st.status>>))
          @@ (IF st.error = NoErrorText THEN NoMembers ELSE ("error" :> JStr(st.error))) )

IsStringMember(v, key) == HasMember(v, key) /\ v.f[key].t = "string"

\* JavaScript truthiness of a member (an absent member is undefined)
IsTruthyMember(v, key) ==
    /\ HasMember(v, key)
    /\ CASE v.f[key].t = "null" -> FALSE
         [] v.f[key].t = "number" -> v.f[key].n # 0
         [] v.f[key].t = "string" -> v.f[key].s # <<>>
         [] OTHER -> TRUE

\* readCachedState without the test of the status
readCachedState_NoStatusCheck(raw) ==
    LET parsed == raw.value
        wellFormed ==
            /\ raw.present /\ raw.valid
            /\ IsObjectValue(parsed)
            /\ IsStringMember(parsed, "track")
            /\ IsStringMember(parsed, "artist")
            /\ IsStringMember(parsed, "album")
            /\ IsStringMember(parsed, "artworkUrl")
    IN  IF ~wellFormed THEN [found |-> FALSE, state |-> Cleared("no-track", NoErrorText)]
        ELSE [ found |-> TRUE,
               state |-> NowPlayingState(
                   parsed.f["track"].s, parsed.f["artist"].s, parsed.f["album"].s,
                   parsed.f["artworkUrl"].s,
                   IF IsStringMember(parsed, "status") /\ parsed.f["status"].s # <<>>
                   THEN parsed.f["status"].s[1]
                   ELSE "not-a-string",
                   IF IsStringMember(parsed, "error") THEN parsed.f["error"].s
                   ELSE NoErrorText) ]

\* readCachedState: [found, state]; found is FALSE for null
readCachedState(raw) ==
    LET parsed == raw.value
        wellFormed ==
            /\ raw.present /\ raw.valid
            /\ IsObjectValue(parsed)
            /\ IsStringMember(parsed, "track")
            /\ IsStringMember(parsed, "artist")
            /\ IsStringMember(parsed, "album")
            /\ IsStringMember(parsed, "artworkUrl")
            /\ IsTruthyMember(parsed, "status")
    IN  IF ~wellFormed THEN [found |-> FALSE, state |-> Cleared("no-track", NoErrorText)]
        ELSE [ found |-> TRUE,
               state |-> NowPlayingState(
                   parsed.f["track"].s, parsed.f["artist"].s, parsed.f["album"].s,
                   parsed.f["artworkUrl"].s,
                   IF parsed.f["status"].t = "string" THEN parsed.f["status"].s[1]
                   ELSE "not-a-string",
                   IF IsStringMember(parsed, "error") THEN parsed.f["error"].s
                   ELSE NoErrorText) ]

\* the menubar cache item after writeCachedState(state)
writeCachedState(item, st) ==
    IF st.status # "ok" \/ st.track = EmptyText THEN item
    ELSE Item(Stringify(StateJson(st)))

(***************************************************************************)
(* now-playing-menubar.tsx: the setState updaters, as functions of prev    *)
(***************************************************************************)
\* setStateIfChanged keeping a displayed track, as the preserving updater does
setStateIfChanged_KeepsTrack(prev, next) ==
    IF prev.status = "ok" /\ prev.track # EmptyText THEN prev
    ELSE IF prev = next THEN prev
    ELSE next

setStateIfChanged(prev, next) == IF prev = next THEN prev ELSE next

\* the updater without the check for a displayed track
setStatePreserving_Overwrites(prev, next) == IF prev = next THEN prev ELSE next

setStatePreservingLastNowPlaying(prev, next) ==
    IF prev.status = "ok" /\ prev.track # EmptyText THEN prev
    ELSE IF prev = next THEN prev
    ELSE next

\* artwork resolution without the carry-over from the displayed album
resolvedArtworkUrl_NoCarry(prev, album, artworkUrl) == artworkUrl

\* artworkUrl || reusableArtwork || ""
resolvedArtworkUrl(prev, album, artworkUrl) ==
    LET sameAlbum == prev.album # EmptyText /\ album # EmptyText /\ prev.album = album
        reusableArtwork == IF sameAlbum THEN prev.artworkUrl ELSE EmptyText
    IN  IF artworkUrl # EmptyText THEN artworkUrl ELSE reusableArtwork

\* deferral decided on the payload's own artwork alone
IsDeferred_OwnArtworkOnly(prev, album, artworkUrl) ==
    /\ artworkUrl = EmptyText
    /\ prev.status = "ok"
    /\ prev.track # EmptyText

\* deferral whenever no artwork is at hand, whatever is displayed
IsDeferred_WhateverDisplayed(prev, album, artworkUrl) ==
    resolvedArtworkUrl(prev, album, artworkUrl) = EmptyText

\* the update is withheld until artwork for the new media is ready
IsDeferred(prev, album, artworkUrl) ==
    /\ resolvedArtworkUrl(prev, album, artworkUrl) = EmptyText
    /\ prev.status = "ok"
    /\ prev.track # EmptyText

\* the updater with track and artist exchanged in the committed state
setNowPlayingState_Swapped(prev, track, artist, album, artworkUrl) ==
    LET next == NowPlayingState(artist, track, album,
                                resolvedArtworkUrl(prev, album, artworkUrl),
                                "ok", NoErrorText)
    IN  IF IsDeferred(prev, album, artworkUrl) THEN prev
        ELSE IF prev = next THEN prev
        ELSE next

setNowPlayingState(prev, track, artist, album, artworkUrl) ==
    LET next == NowPlayingState(track, artist, album,
                                resolvedArtworkUrl(prev, album, artworkUrl),
                                "ok", NoErrorText)
    IN  IF IsDeferred(prev, album, artworkUrl) THEN prev
        ELSE IF prev = next THEN prev
        ELSE next

\* the menubar cache item after the updater of setNowPlayingState has run
setNowPlayingStateCache(item, prev, track, artist, album, artworkUrl) ==
    IF IsDeferred(prev, album, artworkUrl) THEN item
    ELSE writeCachedState(item,
             NowPlayingState(track, artist, album,
                             resolvedArtworkUrl(prev, album, artworkUrl),
                             "ok", NoErrorText))

\* the guard of refreshNowPlaying with the in-flight test left out
IsDropped_PlatformOnly(inFlight, plat) == plat # "darwin"

\* the guard of refreshNowPlaying: the request returns at once
IsDropped(inFlight, plat) == inFlight \/ plat # "darwin"

\* the branches of refreshNowPlaying with the test for a title first
RefreshBranch_TitleFirst(info) ==
    IF readStringField(info.payload, "title") # EmptyText THEN "track"
    ELSE IF info.isNotInstalled THEN "missing-media-control"
    ELSE IF info.query # NullQuery \/ ~IsNull(info.payload) THEN "no-track"
    ELSE "error"

\* which branch of refreshNowPlaying a lookup result takes
RefreshBranch(info) ==
    IF info.isNotInstalled THEN "missing-media-control"
    ELSE IF readStringField(info.payload, "title") # EmptyText THEN "track"
    ELSE IF info.query # NullQuery \/ ~IsNull(info.payload) THEN "no-track"
    ELSE "error"

\* the display state after refreshNowPlaying has applied a lookup result
RefreshedState(prev, info) ==
    LET track == readStringField(info.payload, "title")
        artist == readStringField(info.payload, "artist")
        album == readStringField(info.payload, "album")
        artworkUrl == readArtworkUrl(info.payload)
    IN  CASE RefreshBranch(info) = "missing-media-control" ->
                setStateIfChanged(prev, Cleared("missing-media-control", info.error))
          [] RefreshBranch(info) = "track" ->
                setNowPlayingState(prev, track, artist, album, artworkUrl)
          [] RefreshBranch(info) = "no-track" ->
                setStatePreservingLastNowPlaying(prev, Cleared("no-track", NoErrorText))
          [] OTHER ->
                setStatePreservingLastNowPlaying(prev, Cleared("error", info.error))

\* the menubar cache mirroring the display state on every branch
RefreshedCache_EveryBranch(item, prev, info) ==
    LET track == readStringField(info.payload, "title")
        artist == readStringField(info.payload, "artist")
        album == readStringField(info.payload, "album")
        artworkUrl == readArtworkUrl(info.payload)
        shown ==
            CASE RefreshBranch(info) = "missing-media-control" ->
                    setStateIfChanged(prev, Cleared("missing-media-control", info.error))
              [] RefreshBranch(info) = "track" ->
                    setNowPlayingState(prev, track, artist, album, artworkUrl)
              [] RefreshBranch(info) = "no-track" ->
                    setStatePreservingLastNowPlaying(prev, Cleared("no-track", NoErrorText))
              [] OTHER ->
                    setStatePreservingLastNowPlaying(prev, Cleared("error", info.error))
    IN  Item(Stringify(StateJson(shown)))

\* the menubar cache item after refreshNowPlaying has applied a lookup result
RefreshedCache(item, prev, info) ==
    IF RefreshBranch(info) = "track"
    THEN setNowPlayingStateCache(item, prev,
             readStringField(info.payload, "title"),
             readStringField(info.payload, "artist"),
             readStringField(info.payload, "album"),
             readArtworkUrl(info.payload))
    ELSE item

(***************************************************************************)
(* The search commands: index.tsx (track), the artist search and the       *)
(* album search.  Their useState values are the fields of a record; command *)
(* is the search command launched last, open says whether its view is up,   *)
(* pending counts the lookups of the command that have not resolved, origin *)
(* says what started the last one: the mount effect or the action Refresh   *)
(* Media-Control Check.                                                     *)
(***************************************************************************)
NoSearch ==
    [ command |-> "none", open |-> FALSE,
      isDetectingTrack |-> FALSE, searchText |-> EmptyText,
      trackDetectionError |-> NoErrorText, isMediaControlMissing |-> FALSE,
      isMediaControlInstalled |-> FALSE, targetAlbumName |-> EmptyText,
      targetArtistName |-> EmptyText, pending |-> 0, origin |-> "effect" ]

DefaultDetectionError == <<"No", "now-playing", "track", "detected">>

\* info.error || fallback
ErrorOr(error, fallback) == IF error # NoError THEN error ELSE fallback

\* detectTrack of the track search, after its await
detectTrack(s, result) ==
    IF result.query # NullQuery
    THEN [s EXCEPT !.searchText = result.query,
                   !.trackDetectionError = NoErrorText,
                   !.isMediaControlMissing = FALSE,
                   !.isMediaControlInstalled = FALSE,
                   !.isDetectingTrack = FALSE]
    ELSE [s EXCEPT !.trackDetectionError = ErrorOr(result.error, DefaultDetectionError),
                   !.isMediaControlMissing = result.isNotInstalled,
                   !.isMediaControlInstalled = FALSE,
                   !.isDetectingTrack = FALSE]

\* the handler of Refresh Media-Control Check of the track search, and
\* refreshDetection of the artist search, after their await; they differ in
\* isMediaControlInstalled once a query was found
refreshDetection(s, result, installedOnQuery) ==
    IF result.query # NullQuery
    THEN [s EXCEPT !.searchText = result.query,
                   !.trackDetectionError = NoErrorText,
                   !.isMediaControlMissing = FALSE,
                   !.isMediaControlInstalled = installedOnQuery,
                   !.isDetectingTrack = FALSE]
    ELSE [s EXCEPT !.trackDetectionError = ErrorOr(result.error, DefaultDetectionError),
                   !.isMediaControlMissing = result.isNotInstalled,
                   !.isMediaControlInstalled = ~result.isNotInstalled,
                   !.isDetectingTrack = FALSE]

\* refreshDetection of the album search, after its await
refreshAlbumDetection(s, result) ==
    LET albumQuery == formatNowPlayingAlbumSearchQuery(result.payload)
    IN  IF albumQuery # NullQuery
        THEN [s EXCEPT !.searchText = albumQuery,
                       !.targetAlbumName = readStringField(result.payload, "album"),
                       !.targetArtistName = readStringField(result.payload, "artist"),
                       !.trackDetectionError = NoErrorText,
                       !.isMediaControlMissing = FALSE,
                       !.isMediaControlInstalled = FALSE,
                       !.isDetectingTrack = FALSE]
        ELSE [s EXCEPT !.searchText = EmptyText,
                       !.targetAlbumName = EmptyText,
                       !.targetArtistName = EmptyText,
                       !.trackDetectionError =
                           IF result.isNotInstalled
                           THEN ErrorOr(result.error, DefaultDetectionError)
                           ELSE ErrorOr(result.error, NoErrorText),
                       !.isMediaControlMissing = result.isNotInstalled,
                       !.isMediaControlInstalled = ~result.isNotInstalled,
                       !.isDetectingTrack = FALSE]

\* the useState values of the open search command after a lookup resolved
Detected(s, result) ==
    CASE s.command = "track" /\ s.origin = "effect" -> detectTrack(s, result)
      [] s.command = "track" /\ s.origin = "action" -> refreshDetection(s, result, TRUE)
      [] s.command = "artist" -> refreshDetection(s, result, FALSE)
      [] OTHER -> refreshAlbumDetection(s, result)

\* the view that is rendered offers the action Refresh Media-Control Check:
\* the track search in its two media-control views, the other two in every
\* view that shows no search result
RefreshOffered(s) ==
    /\ ~s.isDetectingTrack
    /\ s.command = "track" =>
           \/ s.isMediaControlMissing
           \/ s.isMediaControlInstalled /\ s.searchText = EmptyText

(***************************************************************************)
(* The inputs the environment supplies                                     *)
(***************************************************************************)
TextA == <<"A">>
TextBPadded == <<"B", " ">>
TextC == <<"C">>
TextD == <<"D">>
TextR == <<"R">>
TextX == <<"X">>
TextY == <<"Y">>
ArtU1 == <<"u", "1">>
ArtRaw == <<"Z", "g">>

\* what media-control prints: objects with and without album, title and
\* artwork, and the JSON values that are no objects
PayloadA == JObj(("title" :> JStr(TextA)) @@ ("artist" :> JStr(TextR))
                 @@ ("album" :> JStr(TextX)) @@ ("artwork_url" :> JStr(ArtU1)))
PayloadB == JObj(("title" :> JStr(TextBPadded)) @@ ("artist" :> JStr(TextR))
                 @@ ("album" :> JStr(TextX)))
PayloadC == JObj(("title" :> JStr(TextC)) @@ ("album" :> JStr(TextX))
                 @@ ("artworkData" :> JStr(ArtRaw)))
PayloadD == JObj(("title" :> JStr(TextD)) @@ ("album" :> JStr(TextY)))
PayloadNoAlbum == JObj(("title" :> JStr(TextA)) @@ ("album" :> JStr(<<" ">>)))
PayloadNoTitle == JObj(("title" :> JNum(7)) @@ ("album" :> JStr(TextX)))
PayloadEmpty == JObj(NoMembers)

ObjectPayloads ==
    { PayloadA, PayloadB, PayloadC, PayloadD, PayloadNoAlbum, PayloadNoTitle,
      PayloadEmpty }

Payloads == ObjectPayloads \cup {JNull, JNum(7), JStr(TextA), JArr}

ErrENOENT == [code |-> "ENOENT", message |-> <<"spawn", "media-control", "ENOENT">>]
ErrEACCES == [code |-> "EACCES", message |-> <<"spawn", "EACCES">>]

\* the payloads the query derivation is checked with: every combination of
\* a title, an artist and an album that is missing, blank, padded with
\* blanks, plain, or no string, and the JSON values that are no objects
Song == <<"S", "o", "n", "g">>
Artist == <<"A", "r", "t", "i", "s", "t">>
Album == <<"A", "l", "b", "u", "m">>

Padded(text) == <<" ">> \o text \o <<" ", " ">>

\* the value of a member the object does not have
Undefined == [t |-> "undefined", s |-> <<>>, n |-> 0, f |-> NoMembers]

Member(key, v) == IF v.t = "undefined" THEN NoMembers ELSE key :> v

TitleValues == {Undefined, JStr(<<" ">>), JStr(Song), JStr(Padded(Song)), JNum(7)}
ArtistValues == {Undefined, JStr(<<>>), JStr(Artist), JStr(Padded(Artist))}
AlbumValues == {Undefined, JStr(<<" ", " ">>), JStr(Album), JStr(Padded(Album))}

QueryPayload(title, artist, album) ==
    JObj(Member("title", title) @@ Member("artist", artist) @@ Member("album", album))

QueryPayloads ==
    { QueryPayload(title, artist, album) :
        title \in TitleValues, artist \in ArtistValues, album \in AlbumValues }
    \cup {JNull, JNum(7), JStr(Song), JArr}

\* execFile rejecting because the process exited with a failure: the message
\* is "Command failed: " followed by the command and by what the process
\* wrote to stderr, here the complaint of the dynamic loader about a library
ErrCrash ==
    [ code |-> "1",
      message |-> << "Command", "failed", ":", "media-control", "get",
                     "dyld", ":", "Library", "not", "loaded", ",",
                     "image", "not", "found" >> ]

\* execFile rejecting because the process was killed at the timeout
ErrTimeout ==
    [ code |-> "", message |-> <<"Command", "failed", ":", "media-control", "get">> ]

\* what running one candidate can come to
Outcomes ==
    { Failed(ErrENOENT), Failed(ErrEACCES), Failed(ErrCrash), Failed(ErrTimeout),
      Ran(Unparseable), Ran(Parsed(PayloadA)) }

\* every run of the probe over the six candidates
ProbeInputs == [1..Len(candidates) -> Outcomes]

\* the six outcomes of a run of the probe in which candidate hit is the
\* first to print JSON (none when hit is 0) and candidate denied fails with
\* EACCES (none when denied is 0); every other candidate is not found
ProbeRun(hit, denied, json) ==
    [ i \in 1..Len(candidates) |->
        IF i = hit THEN Ran(Parsed(json))
        ELSE IF i = denied THEN Failed(ErrEACCES)
        ELSE Failed(ErrENOENT) ]

\* a run in which the first candidate prints something that is no JSON
GarbledRun ==
    [ i \in 1..Len(candidates) |->
        IF i = 1 THEN Ran(Unparseable) ELSE Failed(ErrENOENT) ]

\* the runs of the probe the menubar command is checked with
ProbeRuns ==
    { ProbeRun(1, 0, json) : json \in Payloads }
    \cup { ProbeRun(0, denied, JNull) : denied \in {0, Len(candidates)} }
    \cup { GarbledRun }

\* the runs of the probe the lookup is checked with
LookupPayloads ==
    { PayloadA, PayloadD, PayloadNoAlbum, PayloadNoTitle, JNull, JArr }

LookupRuns ==
    { ProbeRun(1, 0, json) : json \in LookupPayloads }
    \cup { ProbeRun(0, denied, JNull) : denied \in {0, Len(candidates)} }
    \cup { GarbledRun }

\* a track whose duration is printed as a literal beyond the range of a
\* double
PayloadHuge ==
    JObj(("title" :> JStr(TextC)) @@ ("album" :> JStr(TextX))
         @@ ("duration" :> JInf))

\* the runs of the probe the saving and reading of the cache is checked
\* with: three eligible tracks, a track without an album, and no provider
SaveRuns ==
    { ProbeRun(1, 0, json) : json \in {PayloadA, PayloadD, PayloadHuge, PayloadNoAlbum} }
    \cup { ProbeRun(0, 0, JNull) }

(***************************************************************************)
(* State                                                                   *)
(***************************************************************************)
VARIABLES
    platform,       \* process.platform
    clock,          \* what Date.now() returns
    localStorage,   \* LocalStorage: the item under each cache key
    menubarCache,   \* the item under LAST_STATE_CACHE_KEY
    phase,          \* of the menubar command: "rendered", "mounted", "unloaded"
    state,          \* useState: the display state
    hasInitialized, \* useState
    inFlightRef,    \* useRef: inFlightRef.current
    prev,           \* the display state the last refresh cycle started from
    info,           \* the lookup result of the last refresh cycle
    step,           \* the last step the menubar command took
    call,           \* the last call of the lookup: its inputs and its result
    pending,        \* the lookups of the menubar command that have not resolved
    arg,            \* the argument of the function that is checked on its own
    ret,            \* what that function returned: [made, value]
    search          \* the search command that is open, and its useState values

vars ==
    << platform, clock, localStorage, menubarCache, phase, state,
       hasInitialized, inFlightRef, prev, info, step, call, pending, arg, ret,
       search >>

\* the argument and the result of a function that is checked on its own
pureVars == << arg, ret >>

menubarVars ==
    << menubarCache, phase, state, hasInitialized, inFlightRef, prev, info, step >>

NoInfo == inspectNowPlaying("none", <<>>)

NoCall ==
    [ made |-> FALSE, kind |-> "track", allow |-> FALSE, ioOk |-> TRUE,
      probe |-> NoInfo, result |-> NoInfo, rejected |-> FALSE ]

NoArg == <<>>
NoRet == [made |-> FALSE, value |-> <<>>]

\* the program before any command has run
InitProgram ==
    /\ clock = 0
    /\ localStorage = [k \in StorageKeys |-> NoItem]
    /\ menubarCache = NoItem
    /\ phase = "rendered"
    /\ state = defaultState(platform)
    /\ hasInitialized = FALSE
    /\ inFlightRef = FALSE
    /\ prev = defaultState(platform)
    /\ info = NoInfo
    /\ step = "render"
    /\ call = NoCall
    /\ pending = 0
    /\ search = NoSearch

Init ==
    /\ platform \in {"darwin", "win32"}
    /\ InitProgram
    /\ arg = NoArg
    /\ ret = NoRet

(***************************************************************************)
(* Actions                                                                 *)
(***************************************************************************)
\* time passes
Tick ==
    /\ clock < MaxClock
    /\ clock' = clock + 1
    /\ UNCHANGED << platform, localStorage, call, pending >>
    /\ UNCHANGED menubarVars
    /\ UNCHANGED << pureVars, search >>

\* Command(): the menubar command is launched and renders for the first
\* time, in a process of its own: what an earlier launch left running has
\* ended with its process
Command ==
    /\ phase = "unloaded"
    /\ phase' = "rendered"
    /\ state' = IF readCachedState(menubarCache).found
                THEN readCachedState(menubarCache).state
                ELSE defaultState(platform)
    /\ hasInitialized' = readCachedState(menubarCache).found
    /\ inFlightRef' = FALSE
    /\ prev' = state'
    /\ info' = NoInfo
    /\ step' = "render"
    /\ pending' = 0
    /\ UNCHANGED << platform, clock, localStorage, menubarCache, call >>
    /\ UNCHANGED << pureVars, search >>

\* the useEffect callback on a platform other than macOS
EffectUnsupported ==
    /\ phase = "rendered"
    /\ platform # "darwin"
    /\ phase' = "mounted"
    /\ state' = setStateIfChanged(state, Cleared("unsupported-platform", NoErrorText))
    /\ step' = "unsupported"
    /\ UNCHANGED << platform, clock, localStorage, menubarCache, hasInitialized,
                    inFlightRef, prev, info, call, pending >>
    /\ UNCHANGED << pureVars, search >>

\* refreshNowPlaying up to its await: called by the useEffect callback on
\* macOS, and again while the command stays mounted
RefreshStart ==
    /\ phase \in {"rendered", "mounted"}
    /\ platform = "darwin"
    /\ ~IsDropped(inFlightRef, platform)
    /\ phase' = "mounted"
    /\ inFlightRef' = TRUE
    /\ pending' = pending + 1
    /\ step' = "start"
    /\ UNCHANGED << platform, clock, localStorage, menubarCache, state,
                    hasInitialized, prev, info, call >>
    /\ UNCHANGED << pureVars, search >>

\* refreshNowPlaying returning at its guard
RefreshDropped ==
    /\ phase = "mounted"
    /\ IsDropped(inFlightRef, platform)
    /\ step' = "dropped"
    /\ UNCHANGED << platform, clock, localStorage, menubarCache, phase, state,
                    hasInitialized, inFlightRef, prev, info, call, pending >>
    /\ UNCHANGED << pureVars, search >>

\* refreshNowPlaying ending without the reset of the guard in its finally
\* block
RefreshComplete_KeepsGuard(outs, ioOk) ==
    \E probe \in {inspectNowPlaying(platform, outs)} :
    \E result \in {LookupResult(probe, "track", TRUE, localStorage, ioOk)} :
        /\ phase = "mounted"
        /\ pending > 0
        /\ localStorage' = LookupStorage(probe, "track", localStorage, clock, ioOk)
        /\ state' = RefreshedState(state, result)
        /\ menubarCache' = RefreshedCache(menubarCache, state, result)
        /\ hasInitialized' = TRUE
        /\ prev' = state
        /\ info' = result
        /\ step' = "refresh"
        /\ pending' = pending - 1
        /\ UNCHANGED << platform, clock, phase, call, inFlightRef >>
        /\ UNCHANGED << pureVars, search >>

\* refreshNowPlaying from the lookup's storage access to its finally block;
\* ioOk is whether the storage access of the lookup succeeds
RefreshComplete(outs, ioOk) ==
    \E probe \in {inspectNowPlaying(platform, outs)} :
    \E result \in {LookupResult(probe, "track", TRUE, localStorage, ioOk)} :
        /\ phase = "mounted"
        /\ pending > 0
        /\ localStorage' = LookupStorage(probe, "track", localStorage, clock, ioOk)
        /\ state' = RefreshedState(state, result)
        /\ menubarCache' = RefreshedCache(menubarCache, state, result)
        /\ hasInitialized' = TRUE
        /\ inFlightRef' = FALSE
        /\ prev' = state
        /\ info' = result
        /\ step' = "refresh"
        /\ pending' = pending - 1
        /\ UNCHANGED << platform, clock, phase, call >>
        /\ UNCHANGED << pureVars, search >>

\* a lookup that was in flight when the menubar command was unloaded
\* resolves: refreshNowPlaying continues after its await, with nothing to
\* tell it that the view is gone.  The view is not rendered again, so the
\* display state stays; updaterRuns is whether React still evaluates the
\* updater handed to setState, and with it the writeCachedState inside
RefreshLate(outs, ioOk, updaterRuns) ==
    \E probe \in {inspectNowPlaying(platform, outs)} :
    \E result \in {LookupResult(probe, "track", TRUE, localStorage, ioOk)} :
        /\ phase = "unloaded"
        /\ pending > 0
        /\ localStorage' = LookupStorage(probe, "track", localStorage, clock, ioOk)
        /\ menubarCache' = IF updaterRuns
                           THEN RefreshedCache(menubarCache, state, result)
                           ELSE menubarCache
        /\ inFlightRef' = FALSE
        /\ prev' = state
        /\ info' = result
        /\ step' = "late"
        /\ pending' = pending - 1
        /\ UNCHANGED << platform, clock, phase, state, hasInitialized, call >>
        /\ UNCHANGED << pureVars, search >>

\* the menubar command is unloaded, whether or not a lookup is in flight
Unload ==
    /\ phase = "mounted"
    /\ phase' = "unloaded"
    /\ step' = "unload"
    /\ UNCHANGED << platform, clock, localStorage, menubarCache, state,
                    hasInitialized, inFlightRef, prev, info, call, pending >>
    /\ UNCHANGED << pureVars, search >>

Next ==
    \/ Tick
    \/ Command
    \/ EffectUnsupported
    \/ RefreshStart
    \/ RefreshDropped
    \/ \E outs \in ProbeRuns, ioOk \in BOOLEAN : RefreshComplete(outs, ioOk)
    \/ \E outs \in ProbeRuns, ioOk \in BOOLEAN, updaterRuns \in BOOLEAN :
           RefreshLate(outs, ioOk, updaterRuns)
    \/ Unload

\* the menubar command and the storage it uses
Spec == Init /\ [][Next]_vars

(***************************************************************************)
(* The lookup orchestrator under any sequence of calls                     *)
(***************************************************************************)
\* inspectNowPlayingForLookup(kind, {allowCacheFallbackOnIneligible: allow}),
\* as any command calls it; ioOk is whether its storage access succeeds
\* what the probe returns on macOS for each of the runs
ProbedRuns ==
    [outs \in LookupRuns \cup SaveRuns |-> inspectNowPlaying("darwin", outs)]

Lookup(kind, allow, outs, ioOk) ==
    \E probe \in {ProbedRuns[outs]} :
        /\ platform = "darwin"
        /\ localStorage' = LookupStorage(probe, kind, localStorage, clock, ioOk)
        /\ call' = [ made |-> TRUE, kind |-> kind, allow |-> allow, ioOk |-> ioOk,
                     probe |-> probe,
                     result |-> LookupResult(probe, kind, allow, localStorage, ioOk),
                     rejected |-> LookupRejects(platform, outs, probe, kind, allow,
                                                localStorage, ioOk) ]
        /\ UNCHANGED << platform, clock, pending >>
        /\ UNCHANGED menubarVars
        /\ UNCHANGED << pureVars, search >>

InitLookup == Init /\ platform = "darwin"

NextLookup ==
    \/ Tick
    \/ \E kind \in Kinds, allow \in BOOLEAN, outs \in LookupRuns, ioOk \in BOOLEAN :
           Lookup(kind, allow, outs, ioOk)

SpecLookup == InitLookup /\ [][NextLookup]_vars

(***************************************************************************)
(* The call sites of the lookup side by side: the menubar command and a    *)
(* search command, each a command of the extension with a process of its    *)
(* own, sharing LocalStorage                                                *)
(***************************************************************************)
\* a search command is launched on macOS, in a process of its own: it
\* renders and its mount effect starts the detection
SearchCommand(kind) ==
    /\ ~search.open
    /\ platform = "darwin"
    /\ search' = [NoSearch EXCEPT !.command = kind, !.open = TRUE,
                                  !.isDetectingTrack = TRUE,
                                  !.pending = 1, !.origin = "effect"]
    /\ UNCHANGED << platform, clock, localStorage, call, pending >>
    /\ UNCHANGED menubarVars
    /\ UNCHANGED pureVars

\* the action Refresh Media-Control Check up to its await
SearchRefresh ==
    /\ search.open
    /\ RefreshOffered(search)
    /\ search' = [search EXCEPT !.isDetectingTrack = TRUE,
                                !.pending = search.pending + 1,
                                !.origin = "action"]
    /\ UNCHANGED << platform, clock, localStorage, call, pending >>
    /\ UNCHANGED menubarVars
    /\ UNCHANGED pureVars

\* the lookup of the open search command resolves and its caller continues
SearchDetected(outs, ioOk) ==
    /\ search.open
    /\ search.pending > 0
    /\ \E probe \in {inspectNowPlaying(platform, outs)} :
       \E result \in {LookupResult(probe, search.command, FALSE, localStorage, ioOk)} :
        /\ localStorage' =
               LookupStorage(probe, search.command, localStorage, clock, ioOk)
        /\ search' = [Detected(search, result) EXCEPT !.pending = search.pending - 1]
        /\ UNCHANGED << platform, clock, call, pending >>
        /\ UNCHANGED menubarVars
        /\ UNCHANGED pureVars

\* the search command is closed, whether or not a lookup is in flight
SearchClose ==
    /\ search.open
    /\ search' = [search EXCEPT !.open = FALSE]
    /\ UNCHANGED << platform, clock, localStorage, call, pending >>
    /\ UNCHANGED menubarVars
    /\ UNCHANGED pureVars

\* a lookup that was in flight when the search command was closed resolves:
\* detectTrack returns at its cancelled flag, the setters of the other
\* callers have no view left to render
SearchLate(outs, ioOk) ==
    /\ ~search.open
    /\ search.pending > 0
    /\ \E probe \in {inspectNowPlaying(platform, outs)} :
        /\ localStorage' =
               LookupStorage(probe, search.command, localStorage, clock, ioOk)
        /\ search' = [search EXCEPT !.pending = search.pending - 1]
        /\ UNCHANGED << platform, clock, call, pending >>
        /\ UNCHANGED menubarVars
        /\ UNCHANGED pureVars

\* the runs of the probe the call sites are checked with
SiteRuns == { ProbeRun(1, 0, PayloadA), ProbeRun(0, 0, JNull) }

InitSites == Init /\ platform = "darwin"

NextSites ==
    \/ Command
    \/ RefreshStart
    \/ RefreshDropped
    \/ \E outs \in SiteRuns, ioOk \in BOOLEAN : RefreshComplete(outs, ioOk)
    \/ \E outs \in SiteRuns, ioOk \in BOOLEAN, updaterRuns \in BOOLEAN :
           RefreshLate(outs, ioOk, updaterRuns)
    \/ Unload
    \/ \E kind \in Kinds : SearchCommand(kind)
    \/ SearchRefresh
    \/ \E outs \in SiteRuns, ioOk \in BOOLEAN : SearchDetected(outs, ioOk)
    \/ SearchClose
    \/ \E outs \in SiteRuns, ioOk \in BOOLEAN : SearchLate(outs, ioOk)

SpecSites == InitSites /\ [][NextSites]_vars

(***************************************************************************)
(* The probe on its own, over every run of the six candidates              *)
(***************************************************************************)
InitProbe ==
    /\ \/ platform = "darwin" /\ arg \in ProbeInputs
       \/ platform = "win32"
          /\ arg \in {ProbeRun(1, 0, PayloadA), ProbeRun(0, 0, JNull)}
    /\ InitProgram
    /\ ret = NoRet

\* inspectNowPlaying()
Probe ==
    /\ ~ret.made
    /\ ret' = [made |-> TRUE, value |-> inspectNowPlaying(platform, arg)]
    /\ UNCHANGED << platform, clock, localStorage, call, pending, arg, search >>
    /\ UNCHANGED menubarVars

NextProbe == Probe

SpecProbe == InitProbe /\ [][NextProbe]_vars

(***************************************************************************)
(* The query derivation on its own, over every payload and kind            *)
(***************************************************************************)
InitQuery ==
    /\ platform = "darwin"
    /\ InitProgram
    /\ arg \in [payload : QueryPayloads, kind : Kinds]
    /\ ret = NoRet

\* queryForLookupKind(payload, kind)
Query ==
    /\ ~ret.made
    /\ ret' = [made |-> TRUE, value |-> queryForLookupKind(arg.payload, arg.kind)]
    /\ UNCHANGED << platform, clock, localStorage, call, pending, arg, search >>
    /\ UNCHANGED menubarVars

NextQuery == Query

SpecQuery == InitQuery /\ [][NextQuery]_vars

(***************************************************************************)
(* Properties of the display reconciler, checked under Spec                *)
(***************************************************************************)
\* the fields refreshNowPlaying reads from the lookup result of the last cycle
InfoTrack == readStringField(info.payload, "title")
InfoArtist == readStringField(info.payload, "artist")
InfoAlbum == readStringField(info.payload, "album")
InfoArtwork == readArtworkUrl(info.payload)

\* a refresh cycle has just completed
Refreshed == step = "refresh"

\* the lookup of the last cycle yielded a track, the provider being installed
YieldsTrack == ~info.isNotInstalled /\ InfoTrack # EmptyText

\* the case of the anti-flicker test: artwork is displayed, and the lookup
\* yields another track of the displayed album without artwork of its own
C1_Case ==
    /\ Refreshed
    /\ prev.status = "ok" /\ prev.track # EmptyText /\ prev.artworkUrl # EmptyText
    /\ YieldsTrack
    /\ InfoTrack # prev.track
    /\ InfoAlbum = prev.album
    /\ InfoArtwork = EmptyText

\* C1 as stated: in the case of the anti-flicker test the display state after
\* the refresh equals the state before it (the update is deferred).
C1_Original == C1_Case => state = prev

\* C1 amended: in the case of the anti-flicker test the new track is committed
\* with status ok and the artwork of the displayed album carried over.
C1_CarriedOver ==
    C1_Case =>
        state = NowPlayingState(InfoTrack, InfoArtist, prev.album, prev.artworkUrl,
                                "ok", NoErrorText)

C1_Witness == C1_Case /\ prev.track = TextA /\ state.track = <<"B">>

\* the lookup of the last cycle yielded no track and did not report the
\* provider missing
NoUsableTrack == ~info.isNotInstalled /\ InfoTrack = EmptyText

\* C2: when a track is displayed (status ok, track non-empty) and the lookup
\* of a refresh yields no usable track or a probe error that is not classified
\* as not-installed, the display state after the refresh equals the one before.
C2_Preservation ==
    (Refreshed /\ prev.status = "ok" /\ prev.track # EmptyText /\ NoUsableTrack)
        => state = prev

C2_Witness ==
    /\ Refreshed /\ prev.status = "ok" /\ prev.track # EmptyText /\ NoUsableTrack
    /\ info.error # NoError

\* C3 as stated: on macOS, once the status is ok no step changes it.
C3_Original ==
    [][(platform = "darwin" /\ state.status = "ok") => state'.status = "ok"]_vars

\* C3 amended: on macOS, a step from a state with status ok leads to status ok,
\* or to missing-media-control when the lookup reported the provider missing;
\* never to no-track or error.
C3_Monotone ==
    [][(platform = "darwin" /\ state.status = "ok")
          => \/ state'.status = "ok"
             \/ state'.status = "missing-media-control" /\ info'.isNotInstalled]_vars

C3_Witness ==
    /\ Refreshed /\ prev.status = "ok" /\ NoUsableTrack /\ state.status = "ok"

\* C6: in every reachable state of the menubar command, status ok implies a
\* non-empty track.
C6_OkHasTrack == state.status = "ok" => state.track # EmptyText

\* a state with status ok restored from the menubar cache at launch
C6_Witness == step = "render" /\ hasInitialized /\ state.status = "ok"

\* the live payload was ineligible and nothing was cached: the probe resolved
\* a binary, and the lookup result has no payload, no query and no
\* not-installed flag
NoTrackDetected ==
    /\ info.binary # NoBinary
    /\ IsNull(info.payload) /\ info.query = NullQuery /\ ~info.isNotInstalled

\* C7 as stated: when no track is detected and nothing is displayed, the
\* refresh sets the status to no-track.
C7_Claim ==
    (Refreshed /\ prev.status # "ok" /\ NoTrackDetected) => state.status = "no-track"

\* C8: when a lookup yields a track without artwork of its own, the previous
\* artwork is carried over exactly when the previous and the new album are
\* equal and non-empty; with no artwork at all and a track displayed the
\* state is unchanged; otherwise the new track is committed with status ok.
C8_CarryAndDefer ==
    (Refreshed /\ YieldsTrack /\ InfoArtwork = EmptyText) =>
        LET sameAlbum == InfoAlbum # EmptyText /\ prev.album = InfoAlbum
            artwork == IF sameAlbum THEN prev.artworkUrl ELSE EmptyText
        IN  IF artwork = EmptyText /\ prev.status = "ok" /\ prev.track # EmptyText
            THEN state = prev
            ELSE state = NowPlayingState(InfoTrack, InfoArtist, InfoAlbum, artwork,
                                         "ok", NoErrorText)

\* a deferred update: artwork is displayed, the new track is of another album
C8_Witness ==
    /\ Refreshed /\ YieldsTrack /\ InfoArtwork = EmptyText
    /\ prev.status = "ok" /\ prev.artworkUrl # EmptyText
    /\ InfoAlbum # prev.album
    /\ state = prev

\* at most one lookup of the menubar command is unresolved, and the guard
\* is set exactly while one is
C12_OneInFlight ==
    /\ pending <= 1
    /\ phase = "mounted" => (inFlightRef <=> pending = 1)

\* a request that returns at the guard starts no lookup and changes neither
\* the display state nor any storage
C12_DroppedTouchesNothing ==
    step' = "dropped" =>
        /\ pending' = pending
        /\ inFlightRef' = inFlightRef
        /\ state' = state
        /\ menubarCache' = menubarCache
        /\ localStorage' = localStorage

\* a completing cycle applies its result to the state displayed at that
\* moment, the state no other cycle is working on
C12_AppliedInOrder ==
    (phase = "mounted" /\ pending' < pending) =>
        /\ pending = 1 /\ pending' = 0
        /\ step' = "refresh"
        /\ prev' = state
        /\ state' = RefreshedState(state, info')

\* C12: at most one lookup cycle of the menubar command is in flight at any
\* time; a refresh request that arrives while one is outstanding returns
\* without calling the lookup and without touching the display state, so the
\* updates are applied one after another in the order the lookups completed.
C12_InFlightGuard ==
    /\ []C12_OneInFlight
    /\ [][C12_DroppedTouchesNothing /\ C12_AppliedInOrder]_vars

\* a request was dropped while a lookup was outstanding
C12_Witness == step = "dropped" /\ inFlightRef /\ pending = 1

\* C13 as stated: once the menubar command is torn down, a lookup that was in
\* flight may finish, but no step modifies the display state or the durable
\* last-displayed-state cache, and no new lookup is started.
C13_Claim ==
    [][(phase = "unloaded" /\ phase' = "unloaded") =>
          /\ state' = state
          /\ menubarCache' = menubarCache
          /\ pending' <= pending]_vars

\* C15: whenever the lookup result of a refresh has isNotInstalled set, the
\* state after the refresh has status missing-media-control with track,
\* artist, album and artworkUrl empty (and the probe's error text), whatever
\* the previous state was and whatever payload or query the result carries.
C15_MissingProvider ==
    (Refreshed /\ info.isNotInstalled)
        => state = Cleared("missing-media-control", info.error)

\* a track was displayed and the result carries a cached track and its query
C15_Witness ==
    /\ Refreshed /\ info.isNotInstalled
    /\ prev.status = "ok" /\ prev.track # EmptyText
    /\ InfoTrack # EmptyText /\ info.query # NullQuery
    /\ state.status = "missing-media-control"

(***************************************************************************)
(* Properties of the lookup and its cache, checked under SpecLookup        *)
(***************************************************************************)
Slot(kind) == localStorage[CACHE_KEYS[kind]]

\* the payload stored in a slot that holds a record written by the lookup
SlotPayload(kind) == Slot(kind).value.f["payload"]

IsEligible(payload, kind) == queryForLookupKind(payload, kind) # NullQuery

\* the live payload of the last call, as the lookup sees it
LivePayload == asPayloadRecord(call.probe.payload)

\* C4: for a live payload that is not eligible for the requested kind, the
\* lookup without allowCacheFallbackOnIneligible returns no query and no
\* payload, whatever the cache holds.
C4_NoFallbackWithoutOptIn ==
    (call.made /\ ~call.allow /\ ~IsNull(LivePayload)
       /\ ~IsEligible(LivePayload, call.kind))
        => call.result.query = NullQuery /\ IsNull(call.result.payload)

\* such a call while the slot of its kind holds an eligible entry
C4_Witness ==
    /\ call.made /\ ~call.allow /\ call.ioOk
    /\ ~IsNull(LivePayload) /\ ~IsEligible(LivePayload, call.kind)
    /\ Slot(call.kind).present
    /\ IsEligible(SlotPayload(call.kind), call.kind)

\* C5 as stated: when a candidate ran and printed JSON, whatever the JSON
\* value, a lookup without allowCacheFallbackOnIneligible returns nothing
\* taken from the cache: its payload is the live one or null.
C5_Claim ==
    (call.made /\ ~call.allow /\ call.probe.binary # NoBinary)
        => \/ IsNull(call.result.payload) /\ call.result.query = NullQuery
           \/ call.result.payload = call.probe.payload

\* every entry of the slot of a kind holds a payload eligible for that kind
C9_SlotsEligible ==
    \A kind \in Kinds :
        Slot(kind).present =>
            /\ Slot(kind).valid
            /\ IsObjectValue(Slot(kind).value)
            /\ HasMember(Slot(kind).value, "payload")
            /\ IsEligible(SlotPayload(kind), kind)

\* a step changes a slot only by a lookup of that kind whose live payload is
\* eligible for it, to that payload
C9_WrittenWhenEligible ==
    \A kind \in Kinds :
        localStorage'[CACHE_KEYS[kind]] # localStorage[CACHE_KEYS[kind]] =>
            /\ call'.made /\ call'.kind = kind
            /\ IsEligible(asPayloadRecord(call'.probe.payload), kind)
            /\ localStorage'[CACHE_KEYS[kind]].value.f["payload"] = call'.probe.payload

\* C9: after any sequence of lookups every cache entry is eligible for the
\* kind of its slot, and a slot is written only by a lookup of its kind whose
\* live payload is eligible.
C9_CacheEligibility == []C9_SlotsEligible /\ [][C9_WrittenWhenEligible]_vars

\* the album slot holds a payload that is eligible for album only, beside a
\* filled track slot
C9_Witness ==
    /\ Slot("album").present /\ Slot("track").present
    /\ ~IsEligible(SlotPayload("album"), "track")

\* a slot that holds an entry keeps holding one
C10_NeverDeleted ==
    \A kind \in Kinds : Slot(kind).present => localStorage'[CACHE_KEYS[kind]].present

\* an entry is read back whatever its age
C10_NoExpiry ==
    \A kind \in Kinds :
        Slot(kind).present => ~IsNull(readEligibleMedia(localStorage, kind, TRUE))

\* a lookup whose result comes from the cache leaves every slot unchanged
C10_FallbackReadsOnly ==
    (call'.made /\ call' # call
       /\ ~IsEligible(asPayloadRecord(call'.probe.payload), call'.kind))
        => localStorage' = localStorage

\* the slot of the kind of the last call holds the call's live payload
C10_Overwritten ==
    /\ Slot(call.kind).present
    /\ SlotPayload(call.kind) = LivePayload

\* C10 as stated: an entry is never deleted and never expires, every lookup
\* with an eligible live payload overwrites the slot of its kind with that
\* payload, and a lookup that falls back to the cache only reads it.
C10_Original ==
    /\ [][C10_NeverDeleted /\ C10_FallbackReadsOnly]_vars
    /\ [](C10_NoExpiry
          /\ ((call.made /\ IsEligible(LivePayload, call.kind)) => C10_Overwritten))

\* C10 amended: as stated, but the slot is overwritten only when the write
\* to storage succeeds; a failed write leaves it as it was.
C10_Lifecycle ==
    /\ [][C10_NeverDeleted /\ C10_FallbackReadsOnly]_vars
    /\ [](C10_NoExpiry
          /\ ((call.made /\ call.ioOk /\ IsEligible(LivePayload, call.kind))
                => C10_Overwritten))

\* an entry written at time 0 is overwritten by a later call, after the
\* clock has advanced
C10_Witness ==
    /\ call.made /\ call.ioOk /\ IsEligible(LivePayload, call.kind)
    /\ C10_Overwritten
    /\ Slot(call.kind).value.f["cachedAt"].n = 1
    /\ \E other \in Kinds \ {call.kind} :
           Slot(other).present /\ Slot(other).value.f["cachedAt"].n = 0


(***************************************************************************)
(* Properties of the probe, checked under SpecProbe                        *)
(***************************************************************************)
\* the probe has run on macOS
Probed == ret.made /\ platform = "darwin"

\* the candidate was not found: execFile rejected because there is no
\* executable at the path
NotFound(outcome) == ~outcome.ran /\ outcome.error.code = "ENOENT"

\* the first candidate that ran and printed JSON; 0 when there is none
FirstHit(outs) ==
    IF \E i \in 1..Len(candidates) : outs[i].ran /\ outs[i].stdout.valid
    THEN CHOOSE i \in 1..Len(candidates) :
             /\ outs[i].ran /\ outs[i].stdout.valid
             /\ \A j \in 1..(i - 1) : ~(outs[j].ran /\ outs[j].stdout.valid)
    ELSE 0

\* the note of a failed candidate: its path and the message of what it threw
Note(outs, i) ==
    <<candidates[i], ":">>
        \o (IF outs[i].ran /\ outs[i].error = ErrNone THEN SyntaxError.message
            ELSE outs[i].error.message)

\* the run in which the candidates after the first hit are absent
WithoutLater(outs) ==
    [ i \in 1..Len(candidates) |->
        IF i <= FirstHit(outs) THEN outs[i] ELSE Failed(ErrENOENT) ]

\* C11 as stated: the probe reports isNotInstalled only when every one of the
\* six candidates was not found; one candidate failing with another error
\* (permission denied, crash, timeout), at whatever position, makes it false.
C11_Claim ==
    (Probed /\ ret.value.isNotInstalled)
        => \A i \in 1..Len(candidates) : NotFound(arg[i])


(***************************************************************************)
(* Properties of the call sites together, checked under SpecSites          *)
(***************************************************************************)
\* the lookups that have started and not resolved, over all call sites
LookupsRunning == pending + search.pending

\* C14 as stated: over all call sites of the lookup, a second lookup is never
\* started while a first one is still running its probe or its cache write.
C14_Claim == LookupsRunning <= 1


(***************************************************************************)
(* Properties of the cache fallback, checked under SpecLookup              *)
(***************************************************************************)
\* the slot of a kind holds an entry that is eligible for the kind
SlotHoldsEligible(kind) ==
    /\ Slot(kind).present /\ Slot(kind).valid
    /\ IsObjectValue(Slot(kind).value)
    /\ HasMember(Slot(kind).value, "payload")
    /\ IsEligible(SlotPayload(kind), kind)

\* the result of the last call is the entry of the slot of its kind
ReturnsCached ==
    /\ call.result.payload = SlotPayload(call.kind)
    /\ call.result.query = queryForLookupKind(SlotPayload(call.kind), call.kind)

ReturnsNothing == IsNull(call.result.payload) /\ call.result.query = NullQuery

\* the result of the last call carries the probe's error and flag
CarriesDiagnosis ==
    /\ call.result.error = call.probe.error
    /\ call.result.isNotInstalled = call.probe.isNotInstalled

\* the probe of the last call failed to execute: it returned no payload
ProbeFailed == call.made /\ call.probe.binary = NoBinary

\* C16 as stated: after a failed probe the lookup, with or without the
\* option, returns the cached payload and query if the slot of the kind holds
\* an eligible entry and otherwise null and null, with the probe's error and
\* isNotInstalled flag.
C16_Original ==
    ProbeFailed =>
        /\ CarriesDiagnosis
        /\ IF SlotHoldsEligible(call.kind) THEN ReturnsCached ELSE ReturnsNothing

\* C16 amended: as stated, when the read of the slot succeeds; when
\* LocalStorage rejects the read the lookup returns null and null although
\* the slot holds an eligible entry.
C16_FailedProbeFallsBack ==
    ProbeFailed =>
        /\ CarriesDiagnosis
        /\ IF call.ioOk /\ SlotHoldsEligible(call.kind)
           THEN ReturnsCached ELSE ReturnsNothing

\* the cached entry returned without the option, the provider reported missing
C16_Witness ==
    /\ ProbeFailed /\ ~call.allow /\ call.ioOk
    /\ SlotHoldsEligible(call.kind) /\ ReturnsCached
    /\ call.result.isNotInstalled

\* the live payload of the last call was an object not eligible for its
\* kind, and the caller had opted in to the fallback
IneligibleWithOptIn ==
    /\ call.made /\ call.allow
    /\ ~IsNull(LivePayload) /\ ~IsEligible(LivePayload, call.kind)

\* C17 as stated: with the option set and a live payload that is ineligible
\* for the kind, the lookup returns the cached payload and query of that kind
\* if the entry is present and eligible, and otherwise null and null; never
\* the live payload and never an entry cached under another kind.
C17_Original ==
    IneligibleWithOptIn =>
        IF SlotHoldsEligible(call.kind) THEN ReturnsCached ELSE ReturnsNothing

\* C17 amended: as stated, when the read of the slot succeeds; when
\* LocalStorage rejects the read the lookup returns null and null although
\* the entry is present and eligible.
C17_OptInFallsBack ==
    IneligibleWithOptIn =>
        /\ IF call.ioOk /\ SlotHoldsEligible(call.kind)
           THEN ReturnsCached ELSE ReturnsNothing
        /\ call.result.payload # LivePayload

\* the entry of the kind is returned while another slot holds another payload
C17_Witness ==
    /\ IneligibleWithOptIn /\ call.ioOk
    /\ SlotHoldsEligible(call.kind) /\ ReturnsCached
    /\ \E other \in Kinds \ {call.kind} :
           /\ SlotHoldsEligible(other)
           /\ SlotPayload(other) # SlotPayload(call.kind)


(***************************************************************************)
(* Properties of the query derivation, checked under SpecQuery             *)
(***************************************************************************)
\* a field of the payload after trimming; empty when the payload is no
\* object or the field is no string
FieldText(payload, key) ==
    IF payload.t \in {"object", "array"} /\ key \in DOMAIN payload.f
       /\ payload.f[key].t = "string"
    THEN Trim(payload.f[key].s)
    ELSE EmptyText

SongArtist == <<"S", "o", "n", "g", " ", "A", "r", "t", "i", "s", "t">>

\* the query of every payload, by kind
C18_ByKind ==
    LET title == FieldText(arg.payload, "title")
        artist == FieldText(arg.payload, "artist")
        album == FieldText(arg.payload, "album")
    IN  IF arg.kind = "album"
        THEN /\ ret.value # NullQuery <=> album # EmptyText
             /\ ret.value # NullQuery => ret.value = album
        ELSE /\ ret.value # NullQuery <=> (album # EmptyText /\ title # EmptyText)
             /\ ret.value # NullQuery =>
                    ret.value = IF artist = EmptyText THEN title
                                ELSE title \o <<" ">> \o artist

\* the payloads the claim names
C18_Examples ==
    /\ arg.payload = QueryPayload(JStr(Song), JStr(Artist), JStr(Album)) =>
           ret.value = IF arg.kind = "album" THEN Album ELSE SongArtist
    /\ (arg.payload = QueryPayload(JStr(Song), JStr(Artist), Undefined)
          /\ arg.kind = "track") => ret.value = NullQuery

\* C18: for every payload, the query of kinds track and artist is non-null
\* exactly when album and title are both non-empty after trimming and is
\* then the title, a space and the artist (the title alone without an
\* artist); the query of kind album is non-null exactly when the album is
\* non-empty and is then the album.  {Song, Artist, Album} gives "Song Artist"
\* for track and "Album" for album; a title without an album gives null.
C18_QueryDerivation == ret.made => (C18_ByKind /\ C18_Examples)

\* a padded title and album without an artist, asked for kind artist
C18_Witness ==
    /\ ret.made /\ arg.kind = "artist"
    /\ arg.payload = QueryPayload(JStr(Padded(Song)), Undefined, JStr(Padded(Album)))
    /\ ret.value = Song


\* C19: the six candidates are tried one after another in the fixed order,
\* the bare command name first; the probe returns at the first candidate
\* that runs and whose stdout parses as JSON, with that candidate as the
\* binary and without regard to any later candidate; attempts then holds one
\* note per earlier failed candidate, in order; on total failure it holds six
\* notes and the error is the last of them.
C19_CandidateOrder ==
    Probed =>
        LET hit == FirstHit(arg)
            r == ret.value
        IN  /\ candidates[1] = "media-control"
            /\ Len(candidates) = 6
            /\ IF hit # 0
               THEN /\ r.binary = candidates[hit]
                    /\ r.payload = arg[hit].stdout.value
                    /\ r.error = NoError
                    /\ Len(r.attempts) = hit - 1
                    /\ \A i \in 1..(hit - 1) : r.attempts[i] = Note(arg, i)
                    /\ r = inspectNowPlaying(platform, WithoutLater(arg))
               ELSE /\ r.binary = NoBinary
                    /\ IsNull(r.payload)
                    /\ Len(r.attempts) = 6
                    /\ \A i \in 1..6 : r.attempts[i] = Note(arg, i)
                    /\ r.error = r.attempts[6]

\* the third candidate is the first to print JSON, after one that printed
\* no JSON and one that was not found; the fifth would have printed JSON too
C19_Witness ==
    /\ Probed
    /\ arg[1] = Ran(Unparseable) /\ arg[2] = Failed(ErrENOENT)
    /\ FirstHit(arg) = 3
    /\ arg[5].ran /\ arg[5].stdout.valid
    /\ ret.value.binary = "/usr/local/bin/media-control"
    /\ Len(ret.value.attempts) = 2


(***************************************************************************)
(* Properties of the lookup's failure paths, checked under SpecLookup      *)
(***************************************************************************)
\* the fields of MediaControlDebugInfo the model keeps
InfoFields == {"query", "error", "payload", "binary", "attempts", "isNotInstalled"}

\* C20: the lookup never fails with an unhandled fault: whatever the probe
\* did (success, not found, other error, unparseable output) and whether the
\* storage access succeeded or was rejected, inspectNowPlayingForLookup
\* resolves to a result record; when the cache write fails, the live payload
\* and query returned are those returned when it succeeds.
C20_NoUnhandledFault ==
    call.made =>
        /\ ~call.rejected
        /\ DOMAIN call.result = InfoFields
        /\ IsEligible(LivePayload, call.kind) =>
               call.result =
                   WithPayload(call.probe, LivePayload,
                               queryForLookupKind(LivePayload, call.kind))

\* the write of an eligible live payload was rejected: the slot is still
\* empty and the live payload is returned
C20_Witness ==
    /\ call.made /\ ~call.ioOk
    /\ IsEligible(LivePayload, call.kind)
    /\ ~Slot(call.kind).present
    /\ call.result.payload = LivePayload
    /\ call.result.query # NullQuery


(***************************************************************************)
(* The lookup over slots that hold any text: LocalStorage outlives the     *)
(* version of the extension that wrote it, so the slots start with texts   *)
(* that are no JSON, JSON values of every type, and records with and       *)
(* without a payload                                                        *)
(***************************************************************************)
\* what a slot can hold when the extension starts
StoredItems ==
    { NoItem,
      Item(Unparseable),
      Item(Parsed(JNum(7))),
      Item(Parsed(JArr)),
      Item(Parsed(JObj(NoMembers))),
      Item(Parsed(JObj("payload" :> JStr(TextA)))),
      Item(Parsed(JObj("payload" :> JArr))),
      Item(Stringify(CachedEligibleMedia(PayloadNoTitle, 0))),
      Item(Stringify(CachedEligibleMedia(PayloadD, 0))) }

\* the runs of the probe the slots are read with: a live eligible track, a
\* live track without an album, and no provider
SlotRuns ==
    { ProbeRun(1, 0, PayloadA), ProbeRun(1, 0, PayloadNoAlbum), ProbeRun(0, 0, JNull) }

InitSlots ==
    /\ platform = "darwin"
    /\ clock = 0
    /\ localStorage \in [StorageKeys -> StoredItems]
    /\ menubarCache = NoItem
    /\ phase = "rendered"
    /\ state = defaultState(platform)
    /\ hasInitialized = FALSE
    /\ inFlightRef = FALSE
    /\ prev = defaultState(platform)
    /\ info = NoInfo
    /\ step = "render"
    /\ call = NoCall
    /\ pending = 0
    /\ search = NoSearch
    /\ arg = NoArg
    /\ ret = NoRet

NextSlots ==
    \E kind \in Kinds, allow \in BOOLEAN, outs \in SlotRuns, ioOk \in BOOLEAN :
        Lookup(kind, allow, outs, ioOk)

SpecSlots == InitSlots /\ [][NextSlots]_vars

(***************************************************************************)
(* Properties of the cache read, checked under SpecSlots                   *)
(***************************************************************************)
\* the text of a slot is no JSON, or JSON that is no object, or an object
\* without a payload that is a JSON object
Malformed(item) ==
    /\ item.present
    /\ \/ ~item.valid
       \/ item.value.t # "object"
       \/ ~HasMember(item.value, "payload")
       \/ item.value.f["payload"].t # "object"

\* the payload of the slot is a JSON array
HoldsArrayPayload(item) ==
    /\ item.present /\ item.valid /\ item.value.t = "object"
    /\ HasMember(item.value, "payload")
    /\ item.value.f["payload"].t = "array"

\* the storage with the slot of a kind emptied
Emptied(storage, kind) == [storage EXCEPT ![CACHE_KEYS[kind]] = NoItem]

\* the lookup of this step reads the cache: its live payload is not eligible,
\* and it is null or the caller opted in
ReadsCache ==
    LET live == asPayloadRecord(call'.probe.payload)
    IN  /\ call'.made
        /\ ~IsEligible(live, call'.kind)
        /\ IsNull(live) \/ call'.allow

\* a lookup that reads a malformed slot returns what it returns on an empty
\* slot, resolves, and leaves the storage as it was
C21_LikeEmptySlot ==
    (ReadsCache /\ Malformed(Slot(call'.kind))) =>
        /\ call'.result = LookupResult(call'.probe, call'.kind, call'.allow,
                                       Emptied(localStorage, call'.kind), call'.ioOk)
        /\ ~call'.rejected
        /\ localStorage' = localStorage

\* the read of a malformed slot yields null
C21_ReadsNull ==
    \A kind \in Kinds :
        Malformed(Slot(kind)) => IsNull(readEligibleMedia(localStorage, kind, TRUE))

\* the read of a malformed slot yields null, or the payload itself when the
\* payload is an array
C21_ReadsNullOrArray ==
    \A kind \in Kinds :
        Malformed(Slot(kind)) =>
            IF HoldsArrayPayload(Slot(kind))
            THEN readEligibleMedia(localStorage, kind, TRUE) = JArr
            ELSE IsNull(readEligibleMedia(localStorage, kind, TRUE))

\* C21 as stated: a slot whose text is malformed JSON, no object, or without
\* an object-valued payload is read as null, and the lookup returns what it
\* returns on an empty slot, raises nothing and leaves the slot unchanged.
C21_Original == []C21_ReadsNull /\ [][C21_LikeEmptySlot]_vars

\* C21 amended: as stated, but a payload that is an array is not read as
\* null: the read returns the array, which has no query, and the lookup still
\* returns what it returns on an empty slot.
C21_MalformedIsMiss == []C21_ReadsNullOrArray /\ [][C21_LikeEmptySlot]_vars

\* a failed probe has read a slot whose text is no JSON and returned nothing,
\* with the slot still holding the text
C21_Witness ==
    /\ ProbeFailed /\ call.ioOk
    /\ Slot(call.kind).present /\ ~Slot(call.kind).valid
    /\ ReturnsNothing /\ ~call.rejected


(***************************************************************************)
(* Saving and reading the eligibility cache: the lookup saves on its live  *)
(* eligible branch and reads on its fallback branches                      *)
(***************************************************************************)
NextSaves ==
    \/ Tick
    \/ \E kind \in Kinds, allow \in BOOLEAN, outs \in SaveRuns, ioOk \in BOOLEAN :
           Lookup(kind, allow, outs, ioOk)

SpecSaves == InitLookup /\ [][NextSaves]_vars

\* the lookup of this step saves its live payload under its kind
Saves ==
    /\ clock' = clock
    /\ call'.made
    /\ IsEligible(asPayloadRecord(call'.probe.payload), call'.kind)

\* what reading a kind returns in this state and in the next
Loaded(kind) == readEligibleMedia(localStorage, kind, TRUE)
LoadedNext(kind) == readEligibleMedia(localStorage', kind, TRUE)

\* what a kind reads changes only by a save under that kind
C22_KeptUntilSaved ==
    \A kind \in Kinds :
        ~(Saves /\ call'.kind = kind) => LoadedNext(kind) = Loaded(kind)

\* the read after a save returns the saved payload
C22_SaveThenLoad == Saves => LoadedNext(call'.kind) = call'.probe.payload

\* the read after a save whose write succeeded returns the saved payload as
\* JSON.stringify wrote it; a save whose write failed changes nothing
C22_SaveThenLoadWritten ==
    Saves =>
        IF call'.ioOk
        THEN LoadedNext(call'.kind) = Serialized(call'.probe.payload)
        ELSE localStorage' = localStorage

\* C22 as stated: after saving an eligible payload P under a kind, once or
\* twice, reading the kind returns a payload equal to P, and a later save of
\* Q makes the read return Q.
C22_Original == [][C22_SaveThenLoad /\ C22_KeptUntilSaved]_vars

\* C22 amended: as stated for a save whose write to storage succeeds, the
\* payload read back being P with every number that is not finite replaced
\* by null; a save whose write fails leaves the read as it was.
C22_RoundTrip == [][C22_SaveThenLoadWritten /\ C22_KeptUntilSaved]_vars

\* the same payload saved a second time, later, under a kind whose slot
\* held it already: it is read back, with the later cachedAt
C22_Witness ==
    /\ call.made /\ call.ioOk /\ call.kind = "artist"
    /\ LivePayload = PayloadA
    /\ Loaded("artist") = PayloadA
    /\ Slot("artist").value.f["cachedAt"].n = 1
    /\ Loaded("album") = PayloadD


(***************************************************************************)
(* Properties of the durable mirror of the display state, checked under    *)
(* Spec                                                                    *)
(***************************************************************************)
\* the state the menubar cache holds
Mirrored == readCachedState(menubarCache).state

\* whatever the menubar cache holds is a state with status ok and a track
C23_HoldsOk ==
    menubarCache.present =>
        /\ readCachedState(menubarCache).found
        /\ Mirrored.status = "ok"
        /\ Mirrored.track # EmptyText

\* a step writes the menubar cache only when a refresh cycle commits a
\* track: the lookup result took the track branch and the update was not
\* deferred; what it writes is a state with status ok, the one displayed
\* when the command is mounted
C23_WrittenOnCommit ==
    menubarCache' # menubarCache =>
        LET written == readCachedState(menubarCache').state
        IN  /\ step' \in {"refresh", "late"}
            /\ RefreshBranch(info') = "track"
            /\ ~IsDeferred(prev', readStringField(info'.payload, "album"),
                           readArtworkUrl(info'.payload))
            /\ readCachedState(menubarCache').found
            /\ written.status = "ok" /\ written.track # EmptyText
            /\ step' = "refresh" => state' = written

\* C23: the durable cache of the last displayed state is written only with
\* states whose status is ok and whose track is not empty; the transitions
\* to missing-media-control, no-track, error and unsupported-platform and
\* the deferred and preserved updates never write it, so what it holds has
\* status ok.
C23_OnlyOkMirrored == []C23_HoldsOk /\ [][C23_WrittenOnCommit]_vars

\* a refresh cycle leaves the display at missing-media-control while the
\* cache keeps the track that was committed before
C23_Witness ==
    /\ step = "refresh" /\ state.status = "missing-media-control"
    /\ prev.status # "ok"
    /\ menubarCache.present /\ Mirrored.status = "ok" /\ Mirrored.track = TextA


(***************************************************************************)
(* Properties of the probe off macOS, checked under SpecProbe              *)
(***************************************************************************)
\* C24: on a platform other than macOS the probe returns payload null, query
\* null, isNotInstalled false, no attempts and an error text, and runs no
\* candidate: no binary is reported and the result is the same whatever the
\* candidates would have done.
C24_UnsupportedPlatform ==
    (ret.made /\ platform # "darwin") =>
        /\ IsNull(ret.value.payload)
        /\ ret.value.query = NullQuery
        /\ ~ret.value.isNotInstalled
        /\ ret.value.attempts = <<>>
        /\ ret.value.error = <<"media-control", "is", "only", "supported", "on", "macOS">>
        /\ ret.value.binary = NoBinary
        /\ \A outs \in {ProbeRun(1, 0, PayloadA), ProbeRun(0, 0, JNull)} :
               ret.value = inspectNowPlaying(platform, outs)

\* the probe on Windows, where the first candidate would have printed a track
C24_Witness ==
    /\ ret.made /\ platform = "win32"
    /\ arg = ProbeRun(1, 0, PayloadA)
    /\ IsNull(ret.value.payload) /\ ret.value.error # NoError


(***************************************************************************)
(* The menubar command launched over a menubar cache that outlived an      *)
(* earlier process: empty, or holding the state of a track                 *)
(***************************************************************************)
\* what the menubar cache can hold when the command is launched
RestoredItems ==
    { NoItem,
      Item(Stringify(StateJson(
          NowPlayingState(TextA, TextR, TextX, ArtU1, "ok", NoErrorText)))) }

\* the first render: useState starts from the cached state, if there is one
InitRestored ==
    /\ platform \in {"darwin", "win32"}
    /\ clock = 0
    /\ localStorage = [k \in StorageKeys |-> NoItem]
    /\ menubarCache \in RestoredItems
    /\ phase = "rendered"
    /\ state = IF readCachedState(menubarCache).found
               THEN readCachedState(menubarCache).state
               ELSE defaultState(platform)
    /\ hasInitialized = readCachedState(menubarCache).found
    /\ inFlightRef = FALSE
    /\ prev = state
    /\ info = NoInfo
    /\ step = "render"
    /\ call = NoCall
    /\ pending = 0
    /\ search = NoSearch
    /\ arg = NoArg
    /\ ret = NoRet

NextRestored ==
    \/ Tick
    \/ Command
    \/ EffectUnsupported
    \/ RefreshStart
    \/ RefreshDropped
    \/ \E outs \in SiteRuns, ioOk \in BOOLEAN : RefreshComplete(outs, ioOk)
    \/ \E outs \in SiteRuns, ioOk \in BOOLEAN, updaterRuns \in BOOLEAN :
           RefreshLate(outs, ioOk, updaterRuns)
    \/ Unload

SpecRestored == InitRestored /\ [][NextRestored]_vars

(***************************************************************************)
(* Properties of the menubar command off macOS, checked under SpecRestored *)
(***************************************************************************)
\* once mounted, the command displays unsupported-platform with empty fields
C25_Displayed ==
    phase # "rendered" => state = Cleared("unsupported-platform", NoErrorText)

\* no lookup is started: the guard is never set, nothing is pending, no
\* refresh cycle has run and the storage of the lookup is untouched
C25_NoLookup ==
    /\ ~inFlightRef /\ pending = 0
    /\ step \notin {"start", "refresh", "late"}
    /\ info = NoInfo
    /\ localStorage = [k \in StorageKeys |-> NoItem]

\* C25: on a platform other than macOS the menubar command, once mounted,
\* displays status unsupported-platform with track, artist, album and
\* artworkUrl empty, also when it was rendered first with a state with
\* status ok restored from the durable cache; it never starts a lookup, and
\* it stays in that state until the command is launched again.
C25_UnsupportedDisplay ==
    platform # "darwin" => C25_Displayed /\ C25_NoLookup

\* a refresh was requested on Windows after the command was mounted over a
\* restored track
C25_Witness ==
    /\ platform = "win32" /\ phase = "mounted" /\ step = "dropped"
    /\ readCachedState(menubarCache).found
    /\ readCachedState(menubarCache).state.status = "ok"
    /\ hasInitialized
    /\ state.status = "unsupported-platform" /\ state.track = EmptyText


(***************************************************************************)
(* The artwork resolution on its own, over payloads that carry artwork     *)
(* inline, nested, under flat keys, in several places at once, or nowhere  *)
(***************************************************************************)
Zm9v == <<"Z", "m", "9", "v">>
ImagePng == <<"i", "m", "a", "g", "e", "/", "p", "n", "g">>
HttpsUrl == <<"h", "t", "t", "p", "s", ":", "/", "/", "x">>
HttpUrlUpper == <<"H", "T", "T", "P", ":", "/", "/", "y">>
FileUrl == <<"f", "i", "l", "e", ":", "/", "/", "z">>
Blank == <<" ">>

\* objects under artworkData: a raw string behind a blank one and before a
\* URL; a URL before a raw string, with a MIME type; a raw string behind a
\* number, with a blank MIME type; no candidate key at all
NestedRawSecond ==
    JObj(("url" :> JStr(Blank)) @@ ("src" :> JStr(Zm9v)) @@ ("data" :> JStr(HttpsUrl)))
NestedUrlFirst ==
    JObj(("image" :> JStr(HttpUrlUpper)) @@ ("artworkUrl" :> JStr(Zm9v))
         @@ ("mimeType" :> JStr(ImagePng)))
NestedRawTyped ==
    JObj(("url" :> JNum(7)) @@ ("artwork_url" :> JStr(Padded(Zm9v)))
         @@ ("mimeType" :> JStr(Blank)))
NestedNoKey == JObj("other" :> JStr(Zm9v))

ArtworkDataValues ==
    { Undefined, JNull, JStr(Blank), JStr(Zm9v), JStr(Padded(HttpsUrl)), JNum(7),
      JArr, JObj(NoMembers), NestedRawSecond, NestedUrlFirst, NestedRawTyped,
      NestedNoKey }

MimeValues == { Undefined, JStr(ImagePng), JStr(Blank) }
ArtworkUrlValues == { Undefined, JStr(Blank), JStr(FileUrl) }
AlbumArtUrlValues == { Undefined, JStr(Zm9v) }
ThumbnailValues == { Undefined, JStr(Padded(HttpsUrl)), JNum(7) }

ArtworkPayload(data, mime, url, albumArt, thumbnail) ==
    JObj(Member("artworkData", data) @@ Member("artworkMimeType", mime)
         @@ Member("artwork_url", url) @@ Member("albumArtUrl", albumArt)
         @@ Member("thumbnail", thumbnail))

ArtworkPayloads ==
    { ArtworkPayload(data, mime, url, albumArt, thumbnail) :
        data \in ArtworkDataValues, mime \in MimeValues, url \in ArtworkUrlValues,
        albumArt \in AlbumArtUrlValues, thumbnail \in ThumbnailValues }
    \cup { JNull, JNum(7), JStr(Zm9v), JArr }

InitArtwork ==
    /\ platform = "darwin"
    /\ InitProgram
    /\ arg \in ArtworkPayloads
    /\ ret = NoRet

\* readArtworkUrl(payload)
ReadArtwork ==
    /\ ~ret.made
    /\ ret' = [made |-> TRUE, value |-> readArtworkUrl(arg)]
    /\ UNCHANGED << platform, clock, localStorage, call, pending, arg, search >>
    /\ UNCHANGED menubarVars

NextArtwork == ReadArtwork

SpecArtwork == InitArtwork /\ [][NextArtwork]_vars

(***************************************************************************)
(* Properties of the artwork resolution, checked under SpecArtwork         *)
(***************************************************************************)
DataUri(mime, value) ==
    <<"d", "a", "t", "a", ":">> \o mime
    \o <<";", "b", "a", "s", "e", "6", "4", ",">> \o value

\* C26 as stated: every non-empty artwork string the normaliser produces,
\* whichever branch resolved it, is a usable URL: one that started with
\* http://, https://, data: or file:// already, or the value wrapped as
\* data:<mime>;base64,<value>; raw Zm9v with MIME image/png becomes
\* data:image/png;base64,Zm9v.
C26_Claim ==
    ret.made =>
        /\ ret.value # EmptyText => IsUsableUrl(ret.value)
        /\ (arg = ArtworkPayload(JStr(Zm9v), JStr(ImagePng), Undefined, Undefined,
                                 Undefined))
              => ret.value = DataUri(ImagePng, Zm9v)


\* a member of an object value; the value of an absent member is Undefined
Get(v, key) == IF IsObjectValue(v) /\ HasMember(v, key) THEN v.f[key] ELSE Undefined

\* the least number of a set of numbers that is not empty
Least(S) == CHOOSE i \in S : \A j \in S : i <= j

\* the MIME type named by a value: the trimmed text of a non-blank string,
\* or else the fallback
MimeOr(v, fallback) == IF IsNonBlankString(v) THEN Trim(v.s) ELSE fallback

\* C27: readArtworkUrl returns a string for every payload, null and values
\* that are no objects included, and the empty string when nothing matches;
\* a non-blank string under artworkData wins, then the first non-blank
\* string among the keys url, src, data, image, artwork_url, artworkUrl of
\* an object under artworkData, then the first non-empty flat key among
\* artwork_url, artworkUrl, artwork, album_art_url, albumArtUrl, image,
\* thumbnail.
C27_ArtworkOrder ==
    ret.made =>
        LET data == Get(arg, "artworkData")
            mime == MimeOr(Get(arg, "artworkMimeType"), ImageJpeg)
            nestedHits ==
                { i \in 1..Len(nestedCandidates) :
                    IsNonBlankString(Get(data, nestedCandidates[i])) }
            flatHits ==
                { i \in 1..Len(flatCandidates) :
                    IsNonBlankString(Get(arg, flatCandidates[i])) }
        IN  /\ nestedCandidates =
                   <<"url", "src", "data", "image", "artwork_url", "artworkUrl">>
            /\ flatCandidates =
                   <<"artwork_url", "artworkUrl", "artwork", "album_art_url",
                     "albumArtUrl", "image", "thumbnail">>
            /\ DOMAIN ret.value = 1..Len(ret.value)
            /\ IF IsNonBlankString(data)
               THEN ret.value = toArtworkDataUri(data.s, mime)
               ELSE IF nestedHits # {}
               THEN ret.value =
                        toArtworkDataUri(Get(data, nestedCandidates[Least(nestedHits)]).s,
                                         MimeOr(Get(data, "mimeType"), mime))
               ELSE IF flatHits # {}
               THEN ret.value = Trim(Get(arg, flatCandidates[Least(flatHits)]).s)
               ELSE ret.value = EmptyText
            /\ (IsNonBlankString(data) \/ nestedHits # {} \/ flatHits # {})
                  => ret.value # EmptyText

\* the second nested key wins over a later nested key and over two flat
\* keys, behind a blank first nested key
C27_Witness ==
    /\ ret.made
    /\ arg = ArtworkPayload(NestedRawSecond, Undefined, JStr(FileUrl), JStr(Zm9v),
                            Undefined)
    /\ ret.value = DataUri(ImageJpeg, Zm9v)


(***************************************************************************)
(* The album search: normalize and pickBestAlbumResult                     *)
(*                                                                         *)
(* An album result is [id, name, artist]: id 0 stands for a missing id,    *)
(* the empty text for a missing name or artist name.                       *)
(***************************************************************************)
\* String.prototype.toLowerCase, on the letters the names are made of
ToLowerLetter(c) ==
    CASE c = "A" -> "a" [] c = "B" -> "b" [] c = "R" -> "r" [] OTHER -> c

\* [a-z0-9]
IsAlphanumeric(c) == c \in {"a", "b", "r", "x", "1"}

\* .replace(/[^a-z0-9]+/g, " "): every run of other characters becomes one
\* blank
RECURSIVE ReplaceRuns(_, _)
ReplaceRuns(s, inRun) ==
    IF s = <<>> THEN <<>>
    ELSE IF IsAlphanumeric(Head(s)) THEN <<Head(s)>> \o ReplaceRuns(Tail(s), FALSE)
    ELSE IF inRun THEN ReplaceRuns(Tail(s), TRUE)
    ELSE <<" ">> \o ReplaceRuns(Tail(s), TRUE)

normalize(value) ==
    Trim(ReplaceRuns([i \in 1..Len(value) |-> ToLowerLetter(value[i])], FALSE))

NoAlbumResult == [found |-> FALSE, result |-> [id |-> 0, name |-> <<>>, artist |-> <<>>]]
NoBest == [found |-> FALSE, result |-> NoAlbumResult.result, score |-> 0]

\* the score of one result against the normalized targets
AlbumScore(result, normalizedTargetAlbum, normalizedTargetArtist) ==
    LET normalizedCandidateAlbum == normalize(result.name)
        normalizedCandidateArtist == normalize(result.artist)
        album ==
            IF normalizedCandidateAlbum = normalizedTargetAlbum THEN 100
            ELSE IF normalizedTargetAlbum # <<>>
                    /\ (Includes(normalizedCandidateAlbum, normalizedTargetAlbum)
                        \/ Includes(normalizedTargetAlbum, normalizedCandidateAlbum))
            THEN 60
            ELSE 0
        artist ==
            IF normalizedTargetArtist # <<>>
               /\ normalizedCandidateArtist = normalizedTargetArtist
            THEN 20 ELSE 0
    IN  album + artist

\* the loop that replaces the best result on an equal score as well
RECURSIVE BestFromLast(_, _, _, _, _)
BestFromLast(results, i, best, album, artist) ==
    IF i > Len(results) THEN best
    ELSE IF results[i].name = <<>> \/ results[i].id = 0
    THEN BestFromLast(results, i + 1, best, album, artist)
    ELSE LET score == AlbumScore(results[i], album, artist)
         IN  IF ~best.found \/ score >= best.score
             THEN BestFromLast(results, i + 1,
                      [found |-> TRUE, result |-> results[i], score |-> score],
                      album, artist)
             ELSE BestFromLast(results, i + 1, best, album, artist)

pickBestAlbumResult_LastOnTies(results, targetAlbumName, targetArtistName) ==
    LET best == BestFromLast(results, 1, NoBest, normalize(targetAlbumName),
                             normalize(targetArtistName))
    IN  IF best.found /\ best.score > 0
        THEN [found |-> TRUE, result |-> best.result]
        ELSE NoAlbumResult

\* the loop over the results, from result i on
RECURSIVE BestFrom(_, _, _, _, _)
BestFrom(results, i, best, album, artist) ==
    IF i > Len(results) THEN best
    ELSE IF results[i].name = <<>> \/ results[i].id = 0
    THEN BestFrom(results, i + 1, best, album, artist)
    ELSE LET score == AlbumScore(results[i], album, artist)
         IN  IF ~best.found \/ score > best.score
             THEN BestFrom(results, i + 1,
                      [found |-> TRUE, result |-> results[i], score |-> score],
                      album, artist)
             ELSE BestFrom(results, i + 1, best, album, artist)

\* pickBestAlbumResult: [found, result]; found is FALSE for undefined
pickBestAlbumResult(results, targetAlbumName, targetArtistName) ==
    LET best == BestFrom(results, 1, NoBest, normalize(targetAlbumName),
                         normalize(targetArtistName))
    IN  IF best.found /\ best.score > 0
        THEN [found |-> TRUE, result |-> best.result]
        ELSE NoAlbumResult

\* the names the matching is checked with: for the target "A b", a name
\* equal to it once normalized, one that contains it, one it contains, one
\* unrelated, one that normalizes to the empty text, and a missing name
TargetAlbums == { <<"A", " ", "b">>, <<>> }
TargetArtists == { <<"R">>, <<>> }
ResultNames ==
    { <<"a", "-", "B", "!">>, <<"a", " ", "b", " ", "1">>, <<"b">>, <<"1">>,
      <<"!", "!">>, <<>> }
ResultArtists == { <<"R", "!">>, <<"x">>, <<>> }

\* the lists hold up to MaxResults results
MaxResults == 2

\* the lists of results: the result at position i has id i or no id
ResultLists ==
    UNION { { results \in [1..n -> [id : 0..n, name : ResultNames, artist : ResultArtists]] :
                \A i \in 1..n : results[i].id \in {0, i} } : n \in 0..MaxResults }

InitPick ==
    /\ platform = "darwin"
    /\ InitProgram
    /\ arg \in [results : ResultLists, album : TargetAlbums, artist : TargetArtists]
    /\ ret = NoRet

\* pickBestAlbumResult(results, targetAlbumName, targetArtistName)
Pick ==
    /\ ~ret.made
    /\ ret' = [made |-> TRUE,
               value |-> pickBestAlbumResult(arg.results, arg.album, arg.artist)]
    /\ UNCHANGED << platform, clock, localStorage, call, pending, arg, search >>
    /\ UNCHANGED menubarVars

NextPick == Pick

SpecPick == InitPick /\ [][NextPick]_vars


(***************************************************************************)
(* Properties of the album matching, checked under SpecPick                *)
(***************************************************************************)
\* text a holds text b as a run of consecutive characters
Contains(a, b) ==
    \/ b = <<>>
    \/ \E i \in 1..Len(a) : \E j \in i..Len(a) : SubSeq(a, i, j) = b

\* the points of a result: 100 for the same normalized album name, else 60
\* when one normalized name contains the other and the target is not empty,
\* and 20 more for the same normalized artist name when the target artist is
\* not empty
Points(result, album, artist) ==
    LET target == normalize(album)
        name == normalize(result.name)
    IN  (IF name = target THEN 100
         ELSE IF target # <<>> /\ (Contains(name, target) \/ Contains(target, name))
         THEN 60 ELSE 0)
        + (IF normalize(artist) # <<>> /\ normalize(result.artist) = normalize(artist)
           THEN 20 ELSE 0)

\* C28: pickBestAlbumResult skips the results without a name or an id,
\* gives each other result 100 for an exact normalized album match, else 60
\* for containment either way with a non-empty target, plus 20 for an exact
\* normalized artist match with a non-empty target artist, and returns the
\* result with the highest score, the first of them on a tie, or none when
\* the highest score is 0.
C28_AlbumMatching ==
    ret.made =>
        LET results == arg.results
            scored == { i \in 1..Len(results) :
                          results[i].name # <<>> /\ results[i].id # 0 }
            points == [ i \in scored |-> Points(results[i], arg.album, arg.artist) ]
            top == { i \in scored : \A j \in scored : points[j] <= points[i] }
        IN  /\ normalize(<<"a", "-", "B", "!">>) = <<"a", " ", "b">>
            /\ IF scored = {} \/ \A i \in scored : points[i] = 0
               THEN ~ret.value.found
               ELSE /\ ret.value.found
                    /\ ret.value.result = results[Least(top)]
                    /\ ret.value.result.id = Least(top)

\* an exact album match by another artist, in second place, wins over a
\* containing name by the target artist
C28_Witness ==
    /\ ret.made
    /\ arg.album = <<"A", " ", "b">> /\ arg.artist = <<"R">>
    /\ Len(arg.results) = 2
    /\ arg.results[1] = [id |-> 1, name |-> <<"a", " ", "b", " ", "1">>,
                         artist |-> <<"R", "!">>]
    /\ arg.results[2] = [id |-> 2, name |-> <<"a", "-", "B", "!">>, artist |-> <<"x">>]
    /\ ret.value.found /\ ret.value.result.id = 2


(***************************************************************************)
(* Convergence of the display, checked under Spec                          *)
(***************************************************************************)
\* the runs in which the first candidate prints a track that is eligible
\* for kind track: a title and an album, with and without artwork
LiveTracks == { PayloadA, PayloadB, PayloadC, PayloadD }

\* C29 as stated: whatever is displayed, a refresh cycle whose lookup
\* returns the live eligible track T ends with the display at status ok and
\* track T, whether or not the payload of T carries artwork; with every
\* later refresh returning T as well the display keeps it.
C29_Claim ==
    [][ \A json \in LiveTracks : \A ioOk \in BOOLEAN :
          RefreshComplete(ProbeRun(1, 0, json), ioOk) =>
              /\ state'.status = "ok"
              /\ state'.track = readStringField(json, "title") ]_vars


(***************************************************************************)
(* The menubar command with its lookups resolving: every candidate runs    *)
(* under a timeout of three seconds, so the probe ends, and with it the    *)
(* refresh cycle that awaits it                                            *)
(***************************************************************************)
\* the runs of the probe by what the refresh cycle makes of them: a track,
\* no provider, a provider that cannot be executed, and output that is no
\* JSON
GuardRuns ==
    { ProbeRun(1, 0, PayloadA), ProbeRun(0, 0, JNull),
      ProbeRun(0, Len(candidates), JNull), GarbledRun }

NextGuard ==
    \/ Tick
    \/ Command
    \/ EffectUnsupported
    \/ RefreshStart
    \/ RefreshDropped
    \/ \E outs \in GuardRuns, ioOk \in BOOLEAN : RefreshComplete(outs, ioOk)
    \/ \E outs \in GuardRuns, ioOk \in BOOLEAN, updaterRuns \in BOOLEAN :
           RefreshLate(outs, ioOk, updaterRuns)
    \/ Unload

SpecFair ==
    /\ Init
    /\ [][NextGuard]_vars
    /\ WF_vars(\E outs \in GuardRuns, ioOk \in BOOLEAN : RefreshComplete(outs, ioOk))
    /\ WF_vars(\E outs \in GuardRuns, ioOk \in BOOLEAN, updaterRuns \in BOOLEAN :
                   RefreshLate(outs, ioOk, updaterRuns))

(***************************************************************************)
(* Properties of the release of the guard, checked under SpecFair          *)
(***************************************************************************)
\* a refresh cycle ends with the guard cleared, and with hasInitialized true
\* when the command is still mounted
C30_ReleasedAtEnd ==
    pending' < pending =>
        /\ ~inFlightRef'
        /\ phase = "mounted" => hasInitialized'

\* on macOS a mounted command has its guard set only while a lookup of its
\* own has not resolved
C30_SetWhilePending ==
    (platform = "darwin" /\ phase = "mounted") => (inFlightRef <=> pending > 0)

\* on macOS a request is dropped only while a lookup has not resolved
C30_DroppedWhilePending ==
    (step' = "dropped" /\ platform = "darwin") => pending > 0

\* C30: every refresh cycle that passed the guard ends with the guard
\* cleared and hasInitialized true, whatever the lookup returned; so a
\* refresh requested once the cycle has ended is not dropped, and the guard
\* does not stay set forever.
C30_GuardRelease ==
    /\ [][C30_ReleasedAtEnd /\ C30_DroppedWhilePending]_vars
    /\ []C30_SetWhilePending
    /\ (inFlightRef ~> ~inFlightRef)

\* a cycle has ended in status error, from a first render without a cached
\* state
C30_Witness ==
    /\ step = "refresh" /\ phase = "mounted"
    /\ state.status = "error" /\ prev.status = "no-track"
    /\ ~inFlightRef /\ hasInitialized /\ pending = 0


(***************************************************************************)
(* Properties of the lookup's result, checked under SpecSlots: the slots   *)
(* start with any text, among them a record whose payload has an album and *)
(* no title, which is eligible for kind album only                          *)
(***************************************************************************)
\* C31: in every result of the lookup, for every kind, option, probe outcome
\* and cache content, query is non-null exactly when payload is non-null;
\* a non-null payload is eligible for the requested kind (a non-empty album,
\* and for track and artist a non-empty title) and query is
\* queryForLookupKind of that payload; so for kind track a non-null payload
\* has a non-empty title.
C31_QueryIffPayload ==
    call.made =>
        LET r == call.result
        IN  /\ (r.query # NullQuery) <=> ~IsNull(r.payload)
            /\ ~IsNull(r.payload) =>
                   /\ IsObjectValue(r.payload)
                   /\ FieldText(r.payload, "album") # EmptyText
                   /\ call.kind # "album" => FieldText(r.payload, "title") # EmptyText
                   /\ r.query = queryForLookupKind(r.payload, call.kind)
                   /\ r.query # EmptyText
            /\ (call.kind = "track" /\ ~IsNull(r.payload)) =>
                   readStringField(r.payload, "title") # EmptyText

\* a track lookup that opted in, with a live payload without an album, has
\* read a slot that holds an album without a title, and returned nothing
C31_Witness ==
    /\ call.made /\ call.kind = "track" /\ call.allow /\ call.ioOk
    /\ ~IsNull(LivePayload) /\ ~IsEligible(LivePayload, "track")
    /\ Slot("track") = Item(Stringify(CachedEligibleMedia(PayloadNoTitle, 0)))
    /\ IsNull(call.result.payload) /\ call.result.query = NullQuery


(***************************************************************************)
(* Properties of the diagnostics of the lookup, checked under SpecLookup   *)
(***************************************************************************)
\* C32: in every branch of the lookup the result carries the probe's error,
\* attempts, binary and isNotInstalled unchanged, also when payload and query
\* are those of the cache; a result with isNotInstalled set and a cached
\* query is reachable.
C32_DiagnosticsForwarded ==
    call.made =>
        /\ call.result.error = call.probe.error
        /\ call.result.attempts = call.probe.attempts
        /\ call.result.binary = call.probe.binary
        /\ call.result.isNotInstalled = call.probe.isNotInstalled

\* no candidate was found, and the result carries the six notes and the flag
\* beside the payload and the query of the slot
C32_Witness ==
    /\ call.made /\ call.result.isNotInstalled
    /\ Len(call.result.attempts) = Len(candidates)
    /\ call.result.error = call.result.attempts[Len(candidates)]
    /\ call.result.binary = NoBinary
    /\ call.result.query # NullQuery
    /\ ~IsNull(call.result.payload)
    /\ call.result.payload = SlotPayload(call.kind)


(***************************************************************************)
(* The lookup beside what the other stores hold: each slot of LocalStorage *)
(* starts empty, with a text that is no JSON, or with an entry, and the    *)
(* menubar's Cache starts empty or with the state of a track                *)
(***************************************************************************)
IsolatedItems ==
    { NoItem,
      Item(Unparseable),
      Item(Stringify(CachedEligibleMedia(PayloadNoTitle, 0))),
      Item(Stringify(CachedEligibleMedia(PayloadD, 0))) }

\* a live track eligible for every kind, one eligible for album only, one
\* eligible for no kind, and no provider
IsolatedRuns ==
    { ProbeRun(1, 0, PayloadA), ProbeRun(1, 0, PayloadNoTitle),
      ProbeRun(1, 0, PayloadNoAlbum), ProbeRun(0, 0, JNull) }

InitIsolated ==
    /\ platform = "darwin"
    /\ clock = 0
    /\ localStorage \in [StorageKeys -> IsolatedItems]
    /\ menubarCache \in RestoredItems
    /\ phase = "rendered"
    /\ state = IF readCachedState(menubarCache).found
               THEN readCachedState(menubarCache).state
               ELSE defaultState(platform)
    /\ hasInitialized = readCachedState(menubarCache).found
    /\ inFlightRef = FALSE
    /\ prev = state
    /\ info = NoInfo
    /\ step = "render"
    /\ call = NoCall
    /\ pending = 0
    /\ search = NoSearch
    /\ arg = NoArg
    /\ ret = NoRet

NextIsolated ==
    \E kind \in Kinds, allow \in BOOLEAN, outs \in IsolatedRuns, ioOk \in BOOLEAN :
        Lookup(kind, allow, outs, ioOk)

SpecIsolated == InitIsolated /\ [][NextIsolated]_vars

\* the storage with every slot but that of a kind emptied
OnlySlot(storage, kind) ==
    [k \in DOMAIN storage |-> IF k = CACHE_KEYS[kind] THEN storage[k] ELSE NoItem]

\* C33: a lookup of kind K reads and writes only the slot of K: its result is
\* the one it returns with the other two slots emptied, the slots of the
\* other two kinds and the menubar's last-displayed-state entry are
\* unchanged by it, and a lookup whose live payload is ineligible for K or
\* whose probe failed writes no slot at all.
C33_CacheIsolation ==
    [][ LET K == call'.kind
            live == asPayloadRecord(call'.probe.payload)
        IN  /\ call'.made
            /\ \A other \in Kinds \ {K} :
                   localStorage'[CACHE_KEYS[other]] = localStorage[CACHE_KEYS[other]]
            /\ menubarCache' = menubarCache
            /\ call'.result = LookupResult(call'.probe, K, call'.allow,
                                           OnlySlot(localStorage, K), call'.ioOk)
            /\ ~IsEligible(live, K) => localStorage' = localStorage ]_vars

\* an album lookup has written its slot, beside a track slot that holds
\* another track, an artist slot that holds no JSON, and a mirrored state
C33_Witness ==
    /\ call.made /\ call.kind = "album" /\ call.ioOk
    /\ IsEligible(LivePayload, "album") /\ ~IsEligible(LivePayload, "track")
    /\ SlotPayload("album") = LivePayload
    /\ Slot("track") = Item(Stringify(CachedEligibleMedia(PayloadD, 0)))
    /\ Slot("artist") = Item(Unparseable)
    /\ menubarCache.present


(***************************************************************************)
(* The menubar command launched over whatever its Cache holds under        *)
(* last-state: nothing, a text that is no JSON, JSON that is no state, and *)
(* states with and without a track                                          *)
(***************************************************************************)
\* a stored record with the four text fields and the given status member
StoredState(track, album, artworkUrl, status) ==
    JObj( ("track" :> JStr(track)) @@ ("artist" :> JStr(EmptyText))
          @@ ("album" :> JStr(album)) @@ ("artworkUrl" :> JStr(artworkUrl))
          @@ status )

StartupItems ==
    { NoItem,
      Item(Unparseable),
      Item(Parsed(JArr)),
      Item(Parsed(JObj( ("track" :> JStr(TextA)) @@ ("artist" :> JStr(TextR))
                        @@ ("album" :> JStr(TextX))
                        @@ ("status" :> JStr(<<"ok">>)) ))),
      Item(Parsed(StoredState(TextA, TextX, ArtU1, NoMembers))),
      Item(Parsed(StoredState(TextA, TextX, ArtU1, "status" :> JNum(5)))),
      Item(Parsed(StoredState(EmptyText, TextX, ArtU1, "status" :> JStr(<<"no-track">>)))),
      Item(Stringify(StateJson(
          NowPlayingState(TextA, TextR, TextX, ArtU1, "ok", NoErrorText)))) }

\* the runs of the probe the restored display is refreshed with: a track with
\* artwork, a track of the same album without artwork, a track of another
\* album without artwork, a payload without fields, no provider, and a
\* provider that cannot be run
StartupRuns ==
    { ProbeRun(1, 0, PayloadA), ProbeRun(1, 0, PayloadB), ProbeRun(1, 0, PayloadD),
      ProbeRun(1, 0, PayloadEmpty),
      ProbeRun(0, 0, JNull), ProbeRun(0, Len(candidates), JNull) }

InitStartup ==
    /\ platform \in {"darwin", "win32"}
    /\ clock = 0
    /\ localStorage = [k \in StorageKeys |-> NoItem]
    /\ menubarCache \in StartupItems
    /\ phase = "rendered"
    /\ state = IF readCachedState(menubarCache).found
               THEN readCachedState(menubarCache).state
               ELSE defaultState(platform)
    /\ hasInitialized = readCachedState(menubarCache).found
    /\ inFlightRef = FALSE
    /\ prev = state
    /\ info = NoInfo
    /\ step = "render"
    /\ call = NoCall
    /\ pending = 0
    /\ search = NoSearch
    /\ arg = NoArg
    /\ ret = NoRet

NextStartup ==
    \/ Command
    \/ EffectUnsupported
    \/ RefreshStart
    \/ RefreshDropped
    \/ \E outs \in StartupRuns, ioOk \in BOOLEAN : RefreshComplete(outs, ioOk)
    \/ \E outs \in StartupRuns, ioOk \in BOOLEAN, updaterRuns \in BOOLEAN :
           RefreshLate(outs, ioOk, updaterRuns)
    \/ Unload

SpecStartup == InitStartup /\ [][NextStartup]_vars


(***************************************************************************)
(* Properties of the restored display, checked under SpecStartup           *)
(***************************************************************************)
\* C34: whenever the displayed status is not ok and the lookup result of a
\* refresh has isNotInstalled false and a non-empty title, the state after
\* the refresh has status ok with the incoming track, artist and album and
\* the incoming artwork, also when that artwork is empty; artwork is
\* carried over only from a displayed album equal to the incoming one; the
\* update is never deferred.
C34_Recovery ==
    (Refreshed /\ prev.status # "ok" /\ YieldsTrack) =>
        /\ state.status = "ok"
        /\ state.error = NoErrorText
        /\ state.track = InfoTrack
        /\ state.artist = InfoArtist
        /\ state.album = InfoAlbum
        /\ state.artworkUrl =
               IF InfoArtwork # EmptyText THEN InfoArtwork
               ELSE IF prev.album # EmptyText /\ prev.album = InfoAlbum
               THEN prev.artworkUrl
               ELSE EmptyText
        /\ prev.album = EmptyText => state.artworkUrl = InfoArtwork

\* the display showed missing-media-control and the result is a track
\* without artwork: it is displayed without artwork
C34_Witness ==
    /\ Refreshed /\ YieldsTrack
    /\ prev = Cleared("missing-media-control", prev.error)
    /\ InfoArtwork = EmptyText
    /\ state = NowPlayingState(InfoTrack, InfoArtist, InfoAlbum, EmptyText,
                               "ok", NoErrorText)


\* the display shows status ok and the menubar cache holds the displayed state
C35_MirrorsDisplay ==
    (platform = "darwin" /\ state.status = "ok") =>
        /\ readCachedState(menubarCache).found
        /\ Mirrored = state

\* a refresh cycle whose update is deferred or preserved changes neither the
\* display nor the menubar cache
C35_WithheldChangesNothing ==
    (step' = "refresh" /\ prev'.status = "ok" /\ prev'.track # EmptyText
       /\ \/ RefreshBranch(info') \in {"no-track", "error"}
          \/ /\ RefreshBranch(info') = "track"
             /\ IsDeferred(prev', readStringField(info'.payload, "album"),
                           readArtworkUrl(info'.payload)))
        => state' = state /\ menubarCache' = menubarCache

\* C35 as stated: after any sequence of refresh cycles on macOS, from a
\* restored or a default state, whenever the displayed status is ok the
\* menubar cache holds the displayed state, and a deferred or preserved
\* update changes neither of them.
C35_Claim == []C35_MirrorsDisplay /\ [][C35_WithheldChangesNothing]_vars

\* what holds of it: the mirror equals the display as long as the command
\* has not been unloaded
C35_HoldsWhileMounted ==
    /\ [](phase # "unloaded" => C35_MirrorsDisplay)
    /\ [][C35_WithheldChangesNothing]_vars


\* the five values of the status of a NowPlayingState
Statuses ==
    {"ok", "no-track", "missing-media-control", "unsupported-platform", "error"}

\* the entry holds a NowPlayingState as the type declares it: an object with
\* the four texts, one of the five statuses, and no error or a text
HoldsState(item) ==
    /\ item.present /\ item.valid /\ item.value.t = "object"
    /\ \A key \in {"track", "artist", "album", "artworkUrl", "status"} :
           IsStringMember(item.value, key)
    /\ \E status \in Statuses : item.value.f["status"].s = <<status>>
    /\ HasMember(item.value, "error") => IsStringMember(item.value, "error")

\* the entry holds an object with the four texts and a status that is
\* neither absent nor empty, null or zero
HoldsTextsAndStatus(item) ==
    /\ item.present /\ item.valid /\ IsObjectValue(item.value)
    /\ \A key \in {"track", "artist", "album", "artworkUrl"} :
           IsStringMember(item.value, key)
    /\ IsTruthyMember(item.value, "status")

\* the display shows the four texts of the entry, and its status and error
\* where they are texts
ShowsStored(item) ==
    /\ state.track = item.value.f["track"].s
    /\ state.artist = item.value.f["artist"].s
    /\ state.album = item.value.f["album"].s
    /\ state.artworkUrl = item.value.f["artworkUrl"].s
    /\ IsStringMember(item.value, "status") =>
           <<state.status>> = item.value.f["status"].s
    /\ ~IsStringMember(item.value, "status") => state.status \notin Statuses
    /\ state.error = IF IsStringMember(item.value, "error")
                     THEN item.value.f["error"].s ELSE NoErrorText

\* the command has rendered for the first time and no lookup has resolved
FirstRender == phase = "rendered" /\ step = "render"

\* C36 as stated: when the menubar cache holds a well-formed state, the
\* initial display is that state and hasInitialized is true before any
\* lookup completes; when it holds nothing or a malformed value, the initial
\* state has empty fields with status no-track on macOS and
\* unsupported-platform elsewhere, and hasInitialized is false.
C36_Original ==
    FirstRender =>
        IF HoldsState(menubarCache)
        THEN ShowsStored(menubarCache) /\ hasInitialized
        ELSE state = defaultState(platform) /\ ~hasInitialized

\* C36 amended: the entry is restored when it holds an object whose track,
\* artist, album and artworkUrl are texts and whose status is neither
\* absent nor empty, null or zero, whether or not the status is one of the
\* five and whatever the error is; in every other case the initial state is
\* the default one and hasInitialized is false.
C36_Restoration ==
    FirstRender =>
        /\ IF HoldsTextsAndStatus(menubarCache)
           THEN ShowsStored(menubarCache) /\ hasInitialized
           ELSE state = defaultState(platform) /\ ~hasInitialized
        /\ HoldsState(menubarCache) => HoldsTextsAndStatus(menubarCache)

\* the command is launched again over the track an earlier launch has
\* mirrored, and displays it before any lookup of this launch
C36_Witness ==
    /\ FirstRender /\ hasInitialized
    /\ pending = 0 /\ info = NoInfo
    /\ HoldsState(menubarCache)
    /\ state = NowPlayingState(TextD, EmptyText, TextY, EmptyText, "ok", NoErrorText)


(***************************************************************************)
(* The probe over what the candidates print: each candidate is not found,  *)
(* is denied, prints JSON, or prints a text that is no JSON, on an engine  *)
(* that quotes the text in its SyntaxError and on one that does not        *)
(***************************************************************************)
OutputOutcomes ==
    { Failed(ErrENOENT), Failed(ErrEACCES), Ran(Parsed(PayloadA)),
      Ran(Unparseable), Printed(<<"not", "found">>) }

InitOutput ==
    /\ platform = "darwin"
    /\ arg \in [1..Len(candidates) -> OutputOutcomes]
    /\ InitProgram
    /\ ret = NoRet

NextOutput == Probe

SpecOutput == InitOutput /\ [][NextOutput]_vars

\* the candidate ran and printed a text that is no JSON, and no earlier
\* candidate printed JSON
PrintedNoJson(outs, i) ==
    /\ outs[i].ran /\ ~outs[i].stdout.valid
    /\ FirstHit(outs) = 0 \/ i < FirstHit(outs)

\* C37 as stated: a candidate that runs and prints no valid JSON is a failed
\* candidate of the class that is not not-found: its note is appended to
\* attempts, the next candidate is tried, and if no later candidate succeeds
\* the probe returns payload null with isNotInstalled false, also when
\* every other candidate was not found.
C37_Claim ==
    Probed =>
        \A i \in 1..Len(candidates) :
            PrintedNoJson(arg, i) =>
                /\ Len(ret.value.attempts) >= i
                /\ ret.value.attempts[i] = Note(arg, i)
                /\ FirstHit(arg) # 0 =>
                       /\ ret.value.binary = candidates[FirstHit(arg)]
                       /\ Len(ret.value.attempts) = FirstHit(arg) - 1
                /\ FirstHit(arg) = 0 =>
                       /\ IsNull(ret.value.payload)
                       /\ Len(ret.value.attempts) = Len(candidates)
                       /\ ~ret.value.isNotInstalled

\* what holds of it: all of it but the flag, which is false exactly when
\* some candidate threw an error whose message holds neither ENOENT nor
\* "not found"
C37_HoldsButTheFlag ==
    Probed =>
        \A i \in 1..Len(candidates) :
            PrintedNoJson(arg, i) =>
                /\ Len(ret.value.attempts) >= i
                /\ ret.value.attempts[i] = Note(arg, i)
                /\ FirstHit(arg) # 0 =>
                       /\ ret.value.binary = candidates[FirstHit(arg)]
                       /\ Len(ret.value.attempts) = FirstHit(arg) - 1
                /\ FirstHit(arg) = 0 =>
                       /\ IsNull(ret.value.payload)
                       /\ Len(ret.value.attempts) = Len(candidates)
                       /\ ret.value.isNotInstalled <=>
                              \A j \in 1..Len(candidates) :
                                  \/ NotFound(arg[j])
                                  \/ arg[j] = Printed(<<"not", "found">>)

=============================================================================
